---- MODULE Spec2Model ----
(***************************************************************************)
(* A model of the PVM engine of libpvm-rs: the PVM state and its           *)
(* transactions (src/src/ingest/pvm.rs), the coalescing DB store           *)
(* (src/src/ingest/db.rs), the CADETS trace mapper                         *)
(* (src/src/trace/cadets.rs) and the view fan-out                          *)
(* (src/modules/pvm-views/src/lib.rs).                                     *)
(***************************************************************************)
EXTENDS Integers, Sequences, FiniteSets, TLC

(***************************************************************************)
(* Bounds of the model.                                                    *)
(***************************************************************************)
\* Types are registered as long as the IDs stay below this value.
MaxID == 12
\* Number of transactions begun at most.
MaxTx == 2
\* Number of operations performed inside transactions at most.
MaxOps == 4
\* Number of DBStore commits whose events are followed to the views.
MaxCommits == 2
\* Number of view instances created at most.
MaxViews == 2
\* Capacity of the engine->coordinator channel, sync_channel(100_000) in
\* the code, scaled down.
PipeCap == 1
\* Capacity of the channel of a view instance, sync_channel(1000) in the
\* code, scaled down.
StreamCap == 1
\* Number of records ingested at most.
MaxRec == 4

\* the number of lines of an input stream, and BATCH_SIZE (0x10_000 in
\* ingest/mod.rs:17) scaled down
MaxLines == 4

BatchSize == 2

\* the number of streams ingested on one pipeline
MaxStreams == 2

(***************************************************************************)
(* Finite maps (HashMap / LendingLibrary contents) as functions.           *)
(***************************************************************************)
EmptyMap == [k \in {} |-> 0]

Has(m, k) == k \in DOMAIN m

Put(m, k, v) == [x \in DOMAIN m \cup {k} |-> IF x = k THEN v ELSE m[x]]

Del(m, k) == [x \in DOMAIN m \ {k} |-> m[x]]

Image(m) == {m[k] : k \in DOMAIN m}

(***************************************************************************)
(* Concrete types of the CADETS dialect, cadets.rs:25-67.                  *)
(***************************************************************************)
PROCESS == "process"
FILE == "file"
SOCKET == "socket"
PIPE == "pipe"
PTTY == "ptty"
CTX == "cadets_context"

ConcreteTypes == {PROCESS, FILE, SOCKET, PIPE, PTTY}

\* ConcreteType.pvm_ty
PvmTyOf(ty) ==
    CASE ty = PROCESS -> "Actor"
      [] ty = FILE -> "Store"
      [] OTHER -> "Conduit"

\* ConcreteType.props: property name -> heritable
PropsOf(ty) ==
    CASE ty = PROCESS ->
           [k \in {"euid", "ruid", "suid", "egid", "rgid", "sgid", "pid",
                   "cmdline", "login_name"} |-> k # "pid"]
      [] ty \in {FILE, PTTY} ->
           [k \in {"owner_uid", "owner_gid", "mode"} |-> TRUE]
      [] OTHER -> EmptyMap

(***************************************************************************)
(* The inputs of the model.                                                *)
(***************************************************************************)
\* UUIDs of subject processes and of files
ProcUuids == {"p1", "p2"}
FileUuids == {"f1"}

\* the UUIDs and the (type, uuid) pairs handed to the API operations
ApiUuids == {"p1", "f1"}

DeclInputs == {<<PROCESS, "p1">>, <<FILE, "f1">>}

\* names handed to name / unname
Names == {"/a"}

\* byte counts handed to source_nbytes / sinkstart_nbytes: the retval of a
\* read or write record is an i32, -1 on a failed call
ByteCounts == {-1, 7}


(***************************************************************************)
(* State.                                                                  *)
(***************************************************************************)
VARIABLES
    pvm,        \* the PVM, one field per field of the struct (pvm.rs:102-115);
                \* persist_pipe is every DBTr sent on db.persist_pipe, in
                \* order, and id the next value of the ID counter
    tr,         \* the PVMTransaction in flight (pvm.rs:117-129), or NoTr
    aborted,    \* the engine has panicked
    ntx,        \* the number of transactions begun so far
    nops,       \* the number of operations performed inside transactions
    last,       \* the operation performed last and its result
    store_ops,  \* DBStore.ops of the DBStore that DBStore::commit is flushing
    ncommit,    \* the number of DBStore commits begun so far
    recv,       \* the events in the engine->coordinator channel
    thread,     \* the ViewCoordinator thread: its position, event and index
    streams,    \* ViewCoordinator.streams: the events in each view's channel
    insts,      \* for each view instance, the events its thread has received
    bcast,      \* the events the coordinator thread has locked streams for
    joined,     \* for each view instance, Len(bcast) when it was pushed
    lines,      \* ingest_stream: the lines of the stream
    pre_vec,    \* ingest_stream: the lines of the batch being read
    post_vec,   \* ingest_stream: the results of the parse workers
    applied,    \* the records handed to process so far, with the results
    ipc,        \* ingest_stream: its position and the number of lines read
    shut,       \* the position of Engine::shutdown_pipeline
    vdone,      \* the view instances whose thread has returned
    pipeline    \* Engine.pipeline: the tables of its ViewCoordinator, if any

engineVars == <<pvm, tr, aborted, ntx, nops, last>>

viewVars == <<store_ops, ncommit, recv, thread, streams, insts, bcast, joined>>

ingestVars == <<lines, pre_vec, post_vec, applied, ipc>>

shutVars == <<shut, vdone>>

vars == <<pvm, tr, aborted, ntx, nops, last, store_ops, ncommit, recv,
          thread,
          streams, insts, bcast, joined, lines, pre_vec, post_vec, applied,
          ipc, shut, vdone, pipeline>>

(***************************************************************************)
(* Entities.                                                               *)
(***************************************************************************)
\* DataNode::new(pvm_ty, ty, id, uuid, ctx, init); meta is the MetaStore as
\* the map from each key to its current value
DataNode(pvm_ty, ty, nid, uuid, meta) ==
    [cls |-> "Data", id |-> nid, pvm_ty |-> pvm_ty, ty |-> ty, uuid |-> uuid,
     meta |-> meta]

\* NameNode::generate(id, name)
NameNode(nid, name) ==
    [cls |-> "Name", id |-> nid, pvm_ty |-> "None", ty |-> name,
     uuid |-> "none", meta |-> EmptyMap]

\* CtxNode::new(id, ctx_ty, cont)
CtxNode(nid, ctx_ty) ==
    [cls |-> "Ctx", id |-> nid, pvm_ty |-> "None", ty |-> ctx_ty,
     uuid |-> "none", meta |-> EmptyMap]

\* SchemaNode::from_data(id, ty) / SchemaNode::from_ctx(id, ty)
SchemaNode(nid, ty) ==
    [cls |-> "Schema", id |-> nid, pvm_ty |-> "None", ty |-> ty,
     uuid |-> "none", meta |-> EmptyMap]

\* Inf::new(id, src, dst, InfInit {pvm_op, ctx, byte_count: 0})
InfRel(rid, src, dst, pvm_op, ctx) ==
    [cls |-> "Inf", id |-> rid, src |-> src, dst |-> dst, pvm_op |-> pvm_op,
     ctx |-> ctx, byte_count |-> 0, end |-> 0]

\* Named::new(id, src, dst, NamedInit {start: ctx, end: 0}); ctx is start
NamedRel(rid, src, dst, ctx) ==
    [cls |-> "Named", id |-> rid, src |-> src, dst |-> dst,
     pvm_op |-> "None", ctx |-> ctx, byte_count |-> 0, end |-> 0]

\* DBTr, pvm-views/src/lib.rs:40-46
DBTr(op, ent) == [op |-> op, ent |-> ent]

IsNodeOp(e) == e.op \in {"CreateNode", "UpdateNode"}
IsRelOp(e) == e.op \in {"CreateRel", "UpdateRel"}
IsCreate(e) == e.op \in {"CreateNode", "CreateRel"}

(***************************************************************************)
(* DBStore, db.rs:37-126.                                                  *)
(***************************************************************************)
\* the first buffered operation that insert compares equal by ID with op
\* (0 if there is none): a node operation matches node operations, a
\* relationship operation matches relationship operations
MatchIdx(ops, op) ==
    LET hits == {i \in 1..Len(ops) :
                    /\ IsNodeOp(ops[i]) = IsNodeOp(op)
                    /\ ops[i].ent.id = op.ent.id}
    IN IF hits = {} THEN 0 ELSE CHOOSE i \in hits : \A j \in hits : i <= j

\* insert reaches unreachable!(): an Update is buffered and a Create of the
\* same ID arrives
InsertPanics(ops, op) ==
    LET i == MatchIdx(ops, op)
    IN i # 0 /\ ~IsCreate(ops[i]) /\ IsCreate(op)

\* an insert that pushes the operation whatever the store holds
insert_push(ops, op) == Append(ops, op)

\* DBStore::insert: the payload of the matching operation is swapped for the
\* new one, otherwise the operation is pushed
insert(ops, op) ==
    LET i == MatchIdx(ops, op)
    IN IF i = 0 THEN Append(ops, op) ELSE [ops EXCEPT ![i].ent = op.ent]

(***************************************************************************)
(* Transactional overlays (crate transactions) over the PVM's indices: an  *)
(* overlay is modelled by the contents seen through it.                    *)
(***************************************************************************)
\* HashWrap::commit / LendingWrap::commit: the writes reach the parent
HashWrap_commit(parent, cur) == cur

LendingWrap_commit(parent, cur) == cur

\* HashWrap::rollback: the originals are restored
HashWrap_rollback(parent, cur) == parent

(***************************************************************************)
(* PVMTransaction, pvm.rs:117-443. The operations are functions from the   *)
(* transaction to the transaction; ret is the value returned and err the   *)
(* outcome: "Ok", "AssertionFailure", "MissingField" or "panic".           *)
(***************************************************************************)
NoTr ==
    [active |-> FALSE, db |-> <<>>, type_cache |-> {}, uuid_cache |-> EmptyMap,
     node_cache |-> EmptyMap, rel_src_dst_cache |-> EmptyMap,
     rel_cache |-> EmptyMap, id |-> 0, open_cache |-> EmptyMap,
     name_cache |-> EmptyMap, ctx |-> 0, ctx_node |-> CtxNode(0, CTX),
     ret |-> 0, err |-> "Ok"]

Ok(t) == t.err = "Ok"

Fail(t, e) == [t EXCEPT !.err = e, !.ret = 0]

\* the `?` of Rust, and the unwinding of a panic: the rest F of an operation
\* runs on the transaction t unless t holds an error
Try(t, F(_)) == IF Ok(t) THEN F(t) ELSE t

\* `let v = ...;`: the rest F of an operation runs with the value bound
With(v, F(_)) == F(v)

\* DBStore::create_node / create_rel / update_node / update_rel
DbInsert(t, op) ==
    IF InsertPanics(t.db, op) THEN Fail(t, "panic")
    ELSE [t EXCEPT !.db = insert(t.db, op)]

\* the key of rel_src_dst_cache: stringify!(T) inside the generic function
\* is the name of the type parameter
RelKind(cls) == "T"

\* PVMTransaction::_decl_rel, with _inf and _named as its two callers
_decl_rel(t, cls, src, dst, pvm_op) ==
    IF Has(t.rel_src_dst_cache, <<RelKind(cls), src, dst>>)
    THEN [t EXCEPT !.ret = t.rel_src_dst_cache[<<RelKind(cls), src, dst>>]]
    ELSE With(IF cls = "Inf" THEN InfRel(t.id, src, dst, pvm_op, t.ctx)
              ELSE NamedRel(t.id, src, dst, t.ctx),
              LAMBDA rel :
         Try(DbInsert([t EXCEPT !.id = @ + 1], DBTr("CreateRel", rel)),
             LAMBDA t1 :
         [t1 EXCEPT !.rel_src_dst_cache =
                        Put(@, <<RelKind(cls), src, dst>>, rel.id),
                    !.rel_cache = Put(@, rel.id, rel),
                    !.ret = rel.id]))

_inf(t, src, dst, pvm_op) == _decl_rel(t, "Inf", src, dst, pvm_op)

_named(t, src, dst) == _decl_rel(t, "Named", src, dst, "None")

\* PVMTransaction::add
add(t, pvm_ty, ty, uuid, init) ==
    IF ty \notin t.type_cache THEN Fail(t, "AssertionFailure")
    ELSE With(DataNode(pvm_ty, ty, t.id, uuid, init), LAMBDA node :
         Try(DbInsert([t EXCEPT !.id = @ + 1,
                                !.uuid_cache = Put(@, uuid, node.id),
                                !.node_cache =
                                    IF Has(t.uuid_cache, uuid)
                                    THEN Del(@, t.uuid_cache[uuid]) ELSE @],
                      DBTr("CreateNode", node)),
             LAMBDA t1 :
         [t1 EXCEPT !.node_cache = Put(@, node.id, node), !.ret = node.id]))

\* a declare that allocates a node whether or not the UUID is bound
declare_fresh(t, ty, uuid, init) == add(t, PvmTyOf(ty), ty, uuid, init)

\* PVMTransaction::declare; init is the map handed to MetaStore::from_map
declare(t, ty, uuid, init) ==
    IF ~Has(t.uuid_cache, uuid)
    THEN add(t, PvmTyOf(ty), ty, uuid, init)
    ELSE [t EXCEPT !.ret = t.uuid_cache[uuid]]

\* MetaStore::snapshot: the values that carry across versioning
snapshot(node) ==
    LET props == PropsOf(node.ty)
        keep == {k \in DOMAIN node.meta : Has(props, k) /\ props[k]}
    IN [k \in keep |-> node.meta[k]]

\* MetaStore::merge
merge(meta, snap) ==
    [k \in DOMAIN meta \cup DOMAIN snap |->
        IF Has(snap, k) THEN snap[k] ELSE meta[k]]

\* PVMTransaction::_version; src is the lent source node, choice is
\* <<"Left", uuid>> or <<"Right", pvm_ty>>
_version(t, src, choice) ==
    Try(IF choice[1] = "Left"
        THEN Try(declare(t, src.ty, choice[2], EmptyMap), LAMBDA d :
             \* _node(dst_id) while src is lent
             IF d.ret = src.id \/ ~Has(d.node_cache, d.ret)
             THEN Fail(d, "panic")
             ELSE With([d.node_cache[d.ret] EXCEPT
                           !.meta = merge(@, snapshot(src))], LAMBDA dst :
                  Try(DbInsert(d, DBTr("UpdateNode", dst)), LAMBDA u :
                  [u EXCEPT !.node_cache = Put(@, d.ret, dst)])))
        ELSE add(t, choice[2], src.ty, src.uuid, snapshot(src)),
        LAMBDA t1 :
    Try(_inf(t1, src.id, t1.ret, "Version"), LAMBDA t2 :
    [t2 EXCEPT !.ret = t1.ret]))

\* PVMTransaction::derive
derive(t, src, dst) ==
    IF ~Has(t.node_cache, src) THEN Fail(t, "panic")
    ELSE _version(t, t.node_cache[src], <<"Left", dst>>)

\* PVMTransaction::source
source(t, act, ent) ==
    IF ~Has(t.node_cache, act) THEN Fail(t, "panic")
    ELSE IF t.node_cache[act].pvm_ty # "Actor" THEN Fail(t, "AssertionFailure")
    ELSE _inf(t, ent, act, "Source")

\* the tail of source_nbytes and sinkstart_nbytes: the Inf edge is lent,
\* its byte_count incremented and an UpdateRel buffered
AddBytes(t, bytes) ==
    IF ~Ok(t) THEN t
    ELSE IF ~Has(t.rel_cache, t.ret) \/ t.rel_cache[t.ret].cls # "Inf"
    THEN Fail(t, "panic")
    ELSE With([t.rel_cache[t.ret] EXCEPT !.byte_count = @ + bytes],
              LAMBDA r :
         Try(DbInsert(t, DBTr("UpdateRel", r)), LAMBDA t1 :
         [t1 EXCEPT !.rel_cache = Put(@, t.ret, r)]))

\* PVMTransaction::source_nbytes
source_nbytes(t, act, ent, bytes) ==
    IF ~Has(t.node_cache, act) THEN Fail(t, "panic")
    ELSE IF t.node_cache[act].pvm_ty # "Actor" THEN Fail(t, "AssertionFailure")
    ELSE AddBytes(source(t, act, ent), bytes)

\* PVMTransaction::sink
sink(t, act, ent) ==
    IF ~Has(t.node_cache, ent) \/ ~Has(t.node_cache, act) \/ act = ent
    THEN Fail(t, "panic")
    ELSE IF t.node_cache[act].pvm_ty # "Actor" THEN Fail(t, "AssertionFailure")
    ELSE IF t.node_cache[ent].pvm_ty = "Store"
    THEN Try(_version(t, t.node_cache[ent], <<"Right", "Store">>),
             LAMBDA f : _inf(f, act, f.ret, "Sink"))
    ELSE _inf(t, act, ent, "Sink")

\* PVMTransaction::sinkstart
sinkstart(t, act, ent) ==
    IF ~Has(t.node_cache, act) \/ ~Has(t.node_cache, ent) \/ act = ent
    THEN Fail(t, "panic")
    ELSE LET a == t.node_cache[act]
             e == t.node_cache[ent]
         IN IF a.pvm_ty # "Actor" THEN Fail(t, "AssertionFailure")
            ELSE CASE e.pvm_ty = "Store" ->
                        Try(_version(t, e, <<"Right", "EditSession">>),
                            LAMBDA es :
                        _inf([es EXCEPT !.open_cache =
                                            Put(@, e.uuid, {a.uuid})],
                             act, es.ret, "Sink"))
                   [] e.pvm_ty = "EditSession" ->
                        IF ~Has(t.open_cache, e.uuid) THEN Fail(t, "panic")
                        ELSE _inf([t EXCEPT !.open_cache[e.uuid] =
                                                @ \cup {a.uuid}],
                                  act, ent, "Sink")
                   [] OTHER -> _inf(t, act, ent, "Sink")

\* PVMTransaction::sinkstart_nbytes
sinkstart_nbytes(t, act, ent, bytes) ==
    IF ~Has(t.node_cache, act) THEN Fail(t, "panic")
    ELSE IF t.node_cache[act].pvm_ty # "Actor" THEN Fail(t, "AssertionFailure")
    ELSE AddBytes(sinkstart(t, act, ent), bytes)

\* a sinkend that leaves the drained entry in open_cache
sinkend_keep(t, act, ent) ==
    IF ~Has(t.node_cache, ent) \/ ~Has(t.node_cache, act) \/ act = ent
    THEN Fail(t, "panic")
    ELSE LET a == t.node_cache[act]
             e == t.node_cache[ent]
         IN IF a.pvm_ty # "Actor" THEN Fail(t, "AssertionFailure")
            ELSE IF e.pvm_ty # "EditSession" THEN [t EXCEPT !.ret = 0]
            ELSE IF ~Has(t.open_cache, e.uuid) THEN Fail(t, "panic")
            ELSE IF t.open_cache[e.uuid] \ {a.uuid} # {}
            THEN [t EXCEPT !.open_cache[e.uuid] = @ \ {a.uuid}, !.ret = 0]
            ELSE Try(_version([t EXCEPT !.open_cache[e.uuid] = @ \ {a.uuid},
                                        !.ret = 0],
                              e, <<"Right", "Store">>),
                     LAMBDA v : [v EXCEPT !.ret = 0])

\* a sinkend that closes whatever entity it is given: an entity that is no
\* EditSession is versioned to a Store as well
sinkend_any(t, act, ent) ==
    IF ~Has(t.node_cache, ent) \/ ~Has(t.node_cache, act) \/ act = ent
    THEN Fail(t, "panic")
    ELSE LET a == t.node_cache[act]
             e == t.node_cache[ent]
         IN IF a.pvm_ty # "Actor" THEN Fail(t, "AssertionFailure")
            ELSE Try(_version([t EXCEPT !.open_cache =
                                   IF Has(@, e.uuid)
                                   THEN Put(@, e.uuid, @[e.uuid] \ {a.uuid})
                                   ELSE @,
                                        !.ret = 0],
                              e, <<"Right", "Store">>),
                     LAMBDA v : [v EXCEPT !.open_cache = Del(@, e.uuid),
                                          !.ret = 0])

\* PVMTransaction::sinkend
sinkend(t, act, ent) ==
    IF ~Has(t.node_cache, ent) \/ ~Has(t.node_cache, act) \/ act = ent
    THEN Fail(t, "panic")
    ELSE LET a == t.node_cache[act]
             e == t.node_cache[ent]
         IN IF a.pvm_ty # "Actor" THEN Fail(t, "AssertionFailure")
            ELSE IF e.pvm_ty # "EditSession" THEN [t EXCEPT !.ret = 0]
            ELSE IF ~Has(t.open_cache, e.uuid) THEN Fail(t, "panic")
            ELSE IF t.open_cache[e.uuid] \ {a.uuid} # {}
            THEN [t EXCEPT !.open_cache[e.uuid] = @ \ {a.uuid}, !.ret = 0]
            ELSE Try(_version([t EXCEPT !.open_cache[e.uuid] = @ \ {a.uuid},
                                        !.ret = 0],
                              e, <<"Right", "Store">>),
                     LAMBDA v : [v EXCEPT !.open_cache = Del(@, e.uuid),
                                          !.ret = 0])

\* PVMTransaction::decl_name; ret is the ID of the name's NameNode
decl_name(t, name) ==
    IF Has(t.name_cache, name) THEN [t EXCEPT !.ret = t.name_cache[name].id]
    ELSE With(NameNode(t.id, name), LAMBDA n :
         Try(DbInsert([t EXCEPT !.id = @ + 1], DBTr("CreateNode", n)),
             LAMBDA t1 :
         [t1 EXCEPT !.name_cache = Put(@, name, n), !.ret = n.id]))

\* PVMTransaction::name
name(t, obj, nm) == Try(decl_name(t, nm), LAMBDA n : _named(n, obj, n.ret))

\* PVMTransaction::unname
unname(t, obj, nm) ==
    Try(name(t, obj, nm), LAMBDA n :
    IF ~Has(n.rel_cache, n.ret) THEN Fail(n, "panic")
    ELSE IF n.rel_cache[n.ret].cls # "Named" THEN n
    ELSE With([n.rel_cache[n.ret] EXCEPT !.end = n.ctx], LAMBDA rel :
         Try(DbInsert(n, DBTr("UpdateRel", rel)), LAMBDA t1 :
         [t1 EXCEPT !.rel_cache = Put(@, n.ret, rel)])))

\* PVMTransaction::meta
meta(t, ent, key, val) ==
    IF ~Has(t.node_cache, ent) THEN Fail(t, "panic")
    ELSE IF ~Has(PropsOf(t.node_cache[ent].ty), key) THEN Fail(t, "panic")
    ELSE With([t.node_cache[ent] EXCEPT !.meta = Put(@, key, val)],
              LAMBDA e :
         Try(DbInsert(t, DBTr("UpdateNode", e)), LAMBDA t1 :
         [t1 EXCEPT !.node_cache = Put(@, ent, e), !.ret = 0]))

\* PVMTransaction::connect; dir is "Mono" or "BiDirectional"
connect(t, first, second, dir) ==
    IF ~Has(t.node_cache, first) THEN Fail(t, "panic")
    ELSE IF t.node_cache[first].pvm_ty # "Conduit"
    THEN Fail(t, "AssertionFailure")
    ELSE IF ~Has(t.node_cache, second) THEN Fail(t, "panic")
    ELSE IF t.node_cache[second].pvm_ty # "Conduit"
    THEN Fail(t, "AssertionFailure")
    ELSE Try(_inf(t, first, second, "Connect"), LAMBDA t1 :
         Try(IF dir = "BiDirectional"
             THEN _inf(t1, second, first, "Connect") ELSE t1,
             LAMBDA t2 : [t2 EXCEPT !.ret = 0]))

\* a release that drops the binding and leaves the node in the store
release_unbind(t, uuid) ==
    [t EXCEPT !.uuid_cache = Del(@, uuid), !.ret = 0]

\* PVMTransaction::release
release(t, uuid) ==
    IF Has(t.uuid_cache, uuid)
    THEN [t EXCEPT !.uuid_cache = Del(@, uuid),
                   !.node_cache = Del(@, t.uuid_cache[uuid]),
                   !.ret = 0]
    ELSE [t EXCEPT !.ret = 0]

\* a start whose context node does not take its ID off the counter
start_shared(p) ==
    [active |-> TRUE, db |-> <<>>, type_cache |-> p.type_cache,
     uuid_cache |-> p.uuid_cache, node_cache |-> p.node_cache,
     rel_src_dst_cache |-> p.rel_src_dst_cache, rel_cache |-> p.rel_cache,
     id |-> p.id, open_cache |-> p.open_cache,
     name_cache |-> p.name_cache, ctx |-> p.id, ctx_node |-> CtxNode(p.id, CTX),
     ret |-> 0, err |-> "Ok"]

\* PVMTransaction::start, called by PVM::transaction: IDWrap::new snapshots
\* the counter and the context node takes the first ID of the snapshot
start(p) ==
    [active |-> TRUE, db |-> <<>>, type_cache |-> p.type_cache,
     uuid_cache |-> p.uuid_cache, node_cache |-> p.node_cache,
     rel_src_dst_cache |-> p.rel_src_dst_cache, rel_cache |-> p.rel_cache,
     id |-> p.id + 1, open_cache |-> p.open_cache,
     name_cache |-> p.name_cache, ctx |-> p.id, ctx_node |-> CtxNode(p.id, CTX),
     ret |-> 0, err |-> "Ok"]

\* a commit that publishes the ID snapshot and sends the context node
\* whether or not the DBStore holds an event
commit_unconditional(p, t) ==
    [p EXCEPT
        !.uuid_cache = HashWrap_commit(@, t.uuid_cache),
        !.node_cache = LendingWrap_commit(@, t.node_cache),
        !.rel_src_dst_cache = HashWrap_commit(@, t.rel_src_dst_cache),
        !.rel_cache = LendingWrap_commit(@, t.rel_cache),
        !.open_cache = HashWrap_commit(@, t.open_cache),
        !.name_cache = LendingWrap_commit(@, t.name_cache),
        !.id = t.id,
        !.persist_pipe = @ \o insert(t.db, DBTr("CreateNode", t.ctx_node))]

\* PVMTransaction::commit: the overlays are applied; if the DBStore is not
\* empty the ID snapshot is published (IDWrap::commit), the context node is
\* inserted into the DBStore and the DBStore is flushed (DBStore::commit)
commit(p, t) ==
    LET q == [p EXCEPT
                !.uuid_cache = HashWrap_commit(@, t.uuid_cache),
                !.node_cache = LendingWrap_commit(@, t.node_cache),
                !.rel_src_dst_cache = HashWrap_commit(@, t.rel_src_dst_cache),
                !.rel_cache = LendingWrap_commit(@, t.rel_cache),
                !.open_cache = HashWrap_commit(@, t.open_cache),
                !.name_cache = LendingWrap_commit(@, t.name_cache)]
    IN IF Len(t.db) = 0 THEN q
       ELSE [q EXCEPT !.id = t.id,
                      !.persist_pipe =
                          @ \o insert(t.db, DBTr("CreateNode", t.ctx_node))]

\* PVMTransaction::rollback
rollback(p, t) ==
    [p EXCEPT
        !.uuid_cache = HashWrap_rollback(@, t.uuid_cache),
        !.node_cache = LendingWrap_commit(@, t.node_cache),
        !.rel_src_dst_cache = HashWrap_rollback(@, t.rel_src_dst_cache),
        !.rel_cache = LendingWrap_commit(@, t.rel_cache),
        !.open_cache = HashWrap_rollback(@, t.open_cache),
        !.name_cache = LendingWrap_commit(@, t.name_cache)]

(***************************************************************************)
(* PVM, pvm.rs:457-496.                                                    *)
(***************************************************************************)
\* PVM::new
New ==
    [type_cache |-> {}, ctx_type_cache |-> {}, uuid_cache |-> EmptyMap,
     node_cache |-> EmptyMap, rel_src_dst_cache |-> EmptyMap,
     rel_cache |-> EmptyMap, id |-> 1, open_cache |-> EmptyMap,
     name_cache |-> EmptyMap, persist_pipe |-> <<>>,
     unparsed_events |-> {}]

\* PVM::register_data_type
register_data_type(p, ty) ==
    [p EXCEPT !.type_cache = @ \cup {ty},
              !.id = @ + 1,
              !.persist_pipe =
                 Append(@, DBTr("CreateNode", SchemaNode(p.id, ty)))]

\* PVM::register_ctx_type
register_ctx_type(p, ty) ==
    [p EXCEPT !.ctx_type_cache = @ \cup {ty},
              !.id = @ + 1,
              !.persist_pipe =
                 Append(@, DBTr("CreateNode", SchemaNode(p.id, ty)))]

\* <TraceEvent as Mapped>::init, cadets.rs:710-717
init(p) ==
    register_ctx_type(
        register_data_type(
            register_data_type(
                register_data_type(
                    register_data_type(register_data_type(p, PROCESS), FILE),
                    SOCKET),
                PIPE),
            PTTY),
        CTX)

(***************************************************************************)
(* The CADETS mapper, cadets.rs:162-649. An absent Option field of a       *)
(* record is None.                                                         *)
(***************************************************************************)
None == "None"

\* field!(self.f): MissingField if the field is absent
Missing(t) == Fail(t, "MissingField")

\* AuditEvent::posix_exec
posix_exec(t, pro, rec) ==
    IF rec.cmdline = None \/ rec.arg_objuuid1 = None \/ rec.upath1 = None
    THEN Missing(t)
    ELSE Try(declare(t, FILE, rec.arg_objuuid1, EmptyMap), LAMBDA t1 :
         Try(name(t1, t1.ret, rec.upath1), LAMBDA t2 :
         Try(meta(t2, pro, "cmdline", rec.cmdline), LAMBDA t3 :
         Try(source(t3, pro, t1.ret), LAMBDA t4 :
         IF rec.arg_objuuid2 = None THEN t4
         ELSE IF rec.upath2 = None THEN Missing(t4)
         ELSE Try(declare(t4, FILE, rec.arg_objuuid2, EmptyMap), LAMBDA l1 :
              Try(name(l1, l1.ret, rec.upath2), LAMBDA l2 :
              source(l2, pro, l1.ret)))))))

\* AuditEvent::posix_exit
posix_exit(t, pro, rec) == release(t, rec.subjprocuuid)

\* AuditEvent::posix_open
posix_open(t, pro, rec) ==
    IF rec.ret_objuuid1 = None THEN t
    ELSE IF rec.upath1 = None THEN Missing(t)
    ELSE Try(declare(t, FILE, rec.ret_objuuid1, EmptyMap), LAMBDA t1 :
         name(t1, t1.ret, rec.upath1))

\* the common head of posix_read and posix_write: the file is declared and
\* named after fdpath unless that is absent or "<unknown>"
DeclareNamed(t, rec) ==
    IF rec.arg_objuuid1 = None THEN Missing(t)
    ELSE Try(declare(t, FILE, rec.arg_objuuid1, EmptyMap), LAMBDA t1 :
         IF rec.fdpath # None /\ rec.fdpath # "<unknown>"
         THEN Try(name(t1, t1.ret, rec.fdpath), LAMBDA t2 :
              [t2 EXCEPT !.ret = t1.ret])
         ELSE t1)

\* AuditEvent::posix_read
posix_read(t, pro, rec) ==
    Try(DeclareNamed(t, rec), LAMBDA f :
    source_nbytes(f, pro, f.ret, rec.retval))

\* AuditEvent::posix_write
posix_write(t, pro, rec) ==
    Try(DeclareNamed(t, rec), LAMBDA f :
    sinkstart_nbytes(f, pro, f.ret, rec.retval))

\* a close that ends the session of a file the process holds open, whatever
\* file the record names
posix_close_held(t, pro, rec) ==
    IF rec.arg_objuuid1 = None THEN t
    ELSE Try(declare(t, FILE, rec.arg_objuuid1, EmptyMap), LAMBDA f :
         With({u \in DOMAIN f.open_cache :
                 f.node_cache[pro].uuid \in f.open_cache[u]},
              LAMBDA held :
         IF held = {} THEN sinkend(f, pro, f.ret)
         ELSE sinkend(f, pro, f.uuid_cache[CHOOSE u \in held : TRUE])))

\* AuditEvent::posix_close
posix_close(t, pro, rec) ==
    IF rec.arg_objuuid1 = None THEN t
    ELSE Try(declare(t, FILE, rec.arg_objuuid1, EmptyMap), LAMBDA f :
         sinkend(f, pro, f.ret))

\* AuditEvent::posix_fork
posix_fork(t, pro, rec) ==
    IF rec.ret_objuuid1 = None THEN Missing(t)
    ELSE Try(derive(t, pro, rec.ret_objuuid1), LAMBDA ch :
         Try(meta(ch, ch.ret, "pid", ToString(rec.retval)), LAMBDA t1 :
         source(t1, ch.ret, pro)))

\* AuditEvent::posix_rename
posix_rename(t, pro, rec) ==
    IF rec.arg_objuuid1 = None \/ rec.upath1 = None \/ rec.upath2 = None
    THEN Missing(t)
    ELSE Try(declare(t, FILE, rec.arg_objuuid1, EmptyMap), LAMBDA fsrc :
         Try(unname(fsrc, fsrc.ret, rec.upath1), LAMBDA t1 :
         Try(IF rec.arg_objuuid2 = None THEN t1
             ELSE Try(declare(t1, FILE, rec.arg_objuuid2, EmptyMap),
                      LAMBDA fovr : unname(fovr, fovr.ret, rec.upath2)),
             LAMBDA t2 : name(t2, fsrc.ret, rec.upath2))))

\* the dispatch on the event name in AuditEvent::parse
Handle(t, pro, rec) ==
    CASE rec.event = "audit:event:aue_execve:" -> posix_exec(t, pro, rec)
      [] rec.event = "audit:event:aue_exit:" -> posix_exit(t, pro, rec)
      [] rec.event = "audit:event:aue_open_rwtc:" -> posix_open(t, pro, rec)
      [] rec.event = "audit:event:aue_read:" -> posix_read(t, pro, rec)
      [] rec.event = "audit:event:aue_write:" -> posix_write(t, pro, rec)
      [] rec.event = "audit:event:aue_close:" -> posix_close(t, pro, rec)
      [] rec.event = "audit:event:aue_fork:" -> posix_fork(t, pro, rec)
      [] rec.event = "audit:event:aue_rename:" -> posix_rename(t, pro, rec)
      [] OTHER -> t

\* the transaction of AuditEvent::parse when it reaches commit or rollback:
\* the subject process is declared and the handler run
Parsed(p, rec) ==
    Try(declare(start(p), PROCESS, rec.subjprocuuid,
                [k \in {"cmdline", "pid"} |->
                    IF k = "cmdline" THEN rec.exec ELSE rec.pid]),
        LAMBDA t1 : Handle(t1, t1.ret, rec))

\* the commit of a transaction hits unreachable!() in DBStore::insert
CommitPanics(t) ==
    Len(t.db) > 0 /\ InsertPanics(t.db, DBTr("CreateNode", t.ctx_node))

\* AuditEvent::parse: the result is "Ok", the error returned or "panic"
ParseResult(p, rec) ==
    IF rec.host = None THEN "MissingField"
    ELSE With(Parsed(p, rec), LAMBDA t :
         IF Ok(t) /\ CommitPanics(t) THEN "panic" ELSE t.err)

\* a parse that commits the transaction whatever the handler returned
parse_commit(p, rec) ==
    IF rec.host = None THEN p
    ELSE With(Parsed(p, rec), LAMBDA t : commit(p, t))

\* AuditEvent::parse: the PVM it leaves
parse(p, rec) ==
    IF rec.host = None THEN p
    ELSE With(Parsed(p, rec), LAMBDA t :
         IF Ok(t) THEN commit(p, t) ELSE rollback(p, t))

(***************************************************************************)
(* The engine driven through the PVM API: types are registered, and        *)
(* transactions are begun, perform operations one at a time and are        *)
(* committed or rolled back.                                               *)
(***************************************************************************)
Did(op, res) == [op |-> op, res |-> res]

\* a change event on its way to the views, named by the DBStore commit it
\* belongs to and its position in that DBStore
Evt(c, k) == [tx |-> c, k |-> k]

\* the ViewCoordinator thread in `for evt in recv`, holding no event
Waiting == [pc |-> "recv", evt |-> Evt(0, 0), i |-> 0]

\* Engine.pipeline is None
NoPipeline ==
    [running |-> FALSE, views |-> EmptyMap, view_name_map |-> EmptyMap,
     vid_gen |-> 0, viid_gen |-> 0, insts |-> <<>>]

\* Engine::shutdown_pipeline has not been called; v is the view instance
\* ViewCoordinator::shutdown joins next
Running == [pc |-> "run", v |-> 0]

Init ==
    /\ pvm = New
    /\ tr = NoTr
    /\ aborted = FALSE
    /\ ntx = 0
    /\ nops = 0
    /\ last = Did("new", "Ok")
    /\ store_ops = <<>>
    /\ ncommit = 0
    /\ recv = <<>>
    /\ thread = Waiting
    /\ streams = <<>>
    /\ insts = <<>>
    /\ bcast = <<>>
    /\ joined = <<>>
    /\ lines = <<>>
    /\ pre_vec = <<>>
    /\ post_vec = <<>>
    /\ applied = <<>>
    /\ ipc = [pc |-> "done", n |-> 0]
    /\ shut = Running
    /\ vdone = {}
    /\ pipeline = NoPipeline

\* the IDs an operation is handed are those declare returned for the UUIDs
\* of the subject processes and of the objects
Cur(U) == {tr.uuid_cache[u] : u \in U \cap DOMAIN tr.uuid_cache}

Acts == Cur(ProcUuids)

Ents == Cur(FileUuids)

\* the transaction after operation op returned t: the caller goes on with
\* the transaction whatever the result was; a panic aborts the engine
Returned(op, t) ==
    /\ nops < MaxOps
    /\ nops' = nops + 1
    /\ last' = Did(op, t.err)
    /\ UNCHANGED viewVars
    /\ UNCHANGED <<ingestVars, shutVars, pipeline>>
    /\ IF t.err = "panic"
       THEN aborted' = TRUE /\ UNCHANGED <<pvm, tr, ntx>>
       ELSE /\ tr' = [t EXCEPT !.ret = 0, !.err = "Ok"]
            /\ UNCHANGED <<pvm, aborted, ntx>>

Idle == ~aborted /\ ~tr.active

InTr == ~aborted /\ tr.active

RegisterTypes ==
    /\ Idle
    /\ pvm.id + 6 <= MaxID + 1
    /\ pvm' = init(pvm)
    /\ last' = Did("init", "Ok")
    /\ UNCHANGED <<tr, aborted, ntx, nops>>
    /\ UNCHANGED viewVars
    /\ UNCHANGED <<ingestVars, shutVars, pipeline>>

Transaction ==
    /\ Idle
    /\ ntx < MaxTx
    /\ tr' = start(pvm)
    /\ ntx' = ntx + 1
    /\ last' = Did("transaction", "Ok")
    /\ UNCHANGED <<pvm, aborted, nops>>
    /\ UNCHANGED viewVars
    /\ UNCHANGED <<ingestVars, shutVars, pipeline>>

Commit ==
    /\ InTr
    /\ UNCHANGED viewVars
    /\ UNCHANGED <<ingestVars, shutVars, pipeline>>
    /\ IF CommitPanics(tr)
       THEN /\ aborted' = TRUE
            /\ last' = Did("commit", "panic")
            /\ UNCHANGED <<pvm, tr, ntx, nops>>
       ELSE /\ pvm' = commit(pvm, tr)
            /\ tr' = NoTr
            /\ last' = Did("commit", IF Len(tr.db) = 0 THEN "empty" ELSE "Ok")
            /\ UNCHANGED <<aborted, ntx, nops>>

Rollback ==
    /\ InTr
    /\ pvm' = rollback(pvm, tr)
    /\ tr' = NoTr
    /\ last' = Did("rollback", "Ok")
    /\ UNCHANGED <<aborted, ntx, nops>>
    /\ UNCHANGED viewVars
    /\ UNCHANGED <<ingestVars, shutVars, pipeline>>

Declare ==
    /\ InTr
    /\ \E d \in DeclInputs :
          Returned("declare", declare(tr, d[1], d[2], EmptyMap))

Source ==
    /\ InTr
    /\ \E act \in Acts, ent \in Ents :
          Returned("source", source(tr, act, ent))

Sinkstart ==
    /\ InTr
    /\ \E act \in Acts, ent \in Ents :
          Returned("sinkstart", sinkstart(tr, act, ent))

Sinkend ==
    /\ InTr
    /\ \E act \in Acts, ent \in Ents :
          Returned("sinkend", sinkend(tr, act, ent))

Sink ==
    /\ InTr
    /\ \E act \in Acts, ent \in Ents :
          Returned("sink", sink(tr, act, ent))

NameOp ==
    /\ InTr
    /\ \E obj \in Ents, nm \in Names : Returned("name", name(tr, obj, nm))

Unname ==
    /\ InTr
    /\ \E obj \in Ents, nm \in Names : Returned("unname", unname(tr, obj, nm))

Meta ==
    /\ InTr
    /\ \E ent \in Acts : Returned("meta", meta(tr, ent, "pid", "1"))

Release ==
    /\ InTr
    /\ \E u \in ApiUuids : Returned("release", release(tr, u))

Next ==
    \/ RegisterTypes
    \/ Transaction
    \/ Commit
    \/ Rollback
    \/ Declare
    \/ Source
    \/ Sinkstart
    \/ Sinkend
    \/ Sink
    \/ NameOp
    \/ Unname
    \/ Meta
    \/ Release

Spec == Init /\ [][Next]_vars

(***************************************************************************)
(* One transaction driven through the operations that check the PVM type   *)
(* of an argument, with any declared node as subject and as entity.        *)
(***************************************************************************)
\* the objects declared: a process, a file and a socket
AnyDecls == {<<PROCESS, "p1">>, <<FILE, "f1">>, <<SOCKET, "s1">>}

\* the IDs of the current nodes of the declared objects
Nodes == {tr.uuid_cache[u] : u \in DOMAIN tr.uuid_cache}

AnyDeclare ==
    /\ InTr
    /\ \E d \in AnyDecls : Returned("declare", declare(tr, d[1], d[2], EmptyMap))

AnySource ==
    /\ InTr
    /\ \E act \in Nodes, ent \in Nodes :
          Returned("source", source(tr, act, ent))

AnySourceNbytes ==
    /\ InTr
    /\ \E act \in Nodes, ent \in Nodes :
          Returned("source_nbytes", source_nbytes(tr, act, ent, 7))

AnySink ==
    /\ InTr
    /\ \E act \in Nodes, ent \in Nodes : Returned("sink", sink(tr, act, ent))

AnySinkstart ==
    /\ InTr
    /\ \E act \in Nodes, ent \in Nodes :
          Returned("sinkstart", sinkstart(tr, act, ent))

AnySinkstartNbytes ==
    /\ InTr
    /\ \E act \in Nodes, ent \in Nodes :
          Returned("sinkstart_nbytes", sinkstart_nbytes(tr, act, ent, 7))

AnySinkend ==
    /\ InTr
    /\ \E act \in Nodes, ent \in Nodes :
          Returned("sinkend", sinkend(tr, act, ent))

AnyConnect ==
    /\ InTr
    /\ \E first \in Nodes, second \in Nodes, dir \in {"Mono", "BiDirectional"} :
          Returned("connect", connect(tr, first, second, dir))

NextAny ==
    \/ RegisterTypes
    \/ Transaction
    \/ AnyDeclare
    \/ AnySource
    \/ AnySourceNbytes
    \/ AnySink
    \/ AnySinkstart
    \/ AnySinkstartNbytes
    \/ AnySinkend
    \/ AnyConnect

SpecAny == Init /\ [][NextAny]_vars

(***************************************************************************)
(* The engine driven by ingest_stream (ingest/mod.rs:59-127): the types    *)
(* are registered and the records of the stream are applied one after the  *)
(* other, each in its own transaction; an error is logged and the next     *)
(* record is applied.                                                      *)
(***************************************************************************)
\* an audit record with the fields the handlers read
Record(event, subj, arg1, ret1, upath1, upath2, fdpath, retval) ==
    [event |-> event, host |-> "h", subjprocuuid |-> subj, exec |-> "sh",
     pid |-> "1", cmdline |-> "sh", arg_objuuid1 |-> arg1,
     arg_objuuid2 |-> None, ret_objuuid1 |-> ret1, upath1 |-> upath1,
     upath2 |-> upath2, fdpath |-> fdpath, retval |-> retval]

\* a write record and a close record of process pr on file f
WriteRec(pr, f, n) ==
    Record("audit:event:aue_write:", pr, f, None, None, None, None, n)

CloseRec(pr, f) ==
    Record("audit:event:aue_close:", pr, f, None, None, None, None, 0)

\* process(record, pvm) in the loop of ingest_stream
Process(rec) ==
    /\ Idle
    /\ ntx < MaxRec
    /\ ntx' = ntx + 1
    /\ last' = Did(rec.event, ParseResult(pvm, rec))
    /\ UNCHANGED <<tr, nops>>
    /\ UNCHANGED viewVars
    /\ UNCHANGED <<ingestVars, shutVars, pipeline>>
    /\ IF ParseResult(pvm, rec) = "panic"
       THEN aborted' = TRUE /\ pvm' = pvm
       ELSE aborted' = aborted /\ pvm' = parse(pvm, rec)

IngestInit ==
    /\ Idle
    /\ pvm.type_cache = {}
    /\ pvm' = init(pvm)
    /\ last' = Did("init", "Ok")
    /\ UNCHANGED <<tr, aborted, ntx, nops>>
    /\ UNCHANGED viewVars
    /\ UNCHANGED <<ingestVars, shutVars, pipeline>>

IngestOpen ==
    /\ Idle
    /\ \E f \in FileUuids, pth \in {None, "/a"} :
           Process(Record("audit:event:aue_open_rwtc:", "p1", None, f, pth,
                          None, None, 0))

IngestRead ==
    /\ Idle
    /\ \E f \in FileUuids, n \in ByteCounts :
           Process(Record("audit:event:aue_read:", "p1", f, None, None, None,
                          None, n))

IngestWrite ==
    /\ Idle
    /\ \E pr \in ProcUuids, f \in FileUuids, n \in ByteCounts :
           Process(WriteRec(pr, f, n))

IngestClose ==
    /\ Idle
    /\ \E pr \in ProcUuids, f \in FileUuids :
           Process(CloseRec(pr, f))

IngestExit ==
    /\ Idle
    /\ Process(Record("audit:event:aue_exit:", "p1", None, None, None, None,
                      None, 0))

NextRec ==
    \/ IngestInit
    \/ IngestOpen
    \/ IngestRead
    \/ IngestWrite
    \/ IngestClose
    \/ IngestExit

SpecRec == Init /\ [][NextRec]_vars

(***************************************************************************)
(* The engine driven by ingest_stream with the records of the life of a    *)
(* process and of the names of files: fork, exec and rename.               *)
(***************************************************************************)
\* the paths and the UUID of the second file of these records
Paths == {"/a", "/b"}

OtherFile == "f2"

\* a fork record of process pr with child ch and the child's pid
ForkRec(pr, ch, pid) ==
    Record("audit:event:aue_fork:", pr, None, ch, None, None, None, pid)

\* a rename record of process pr: file a from path src to path dst, over
\* file b if one is given
RenameRec(pr, a, src, dst, b) ==
    [Record("audit:event:aue_rename:", pr, a, None, src, dst, None, 0)
        EXCEPT !.arg_objuuid2 = b]

\* an exec record of process pr: binary f at path pth, interpreter ld at
\* path ldpth
ExecRec(pr, f, pth, ld, ldpth) ==
    [Record("audit:event:aue_execve:", pr, f, None, pth, ldpth, None, 0)
        EXCEPT !.arg_objuuid2 = ld]

IngestFork ==
    /\ Idle
    /\ \E ch \in {"p2", None} : Process(ForkRec("p1", ch, 4242))

IngestRename ==
    /\ Idle
    /\ \E src \in Paths, dst \in Paths \cup {None}, b \in {None, OtherFile} :
           /\ src # dst
           /\ Process(RenameRec("p1", "f1", src, dst, b))

IngestExec ==
    /\ Idle
    /\ \E ld \in {None, OtherFile} :
           Process(ExecRec("p1", "f1", "/a", ld, None))

NextProc ==
    \/ IngestInit
    \/ IngestFork
    \/ IngestRename
    \/ IngestExec

SpecProc == Init /\ [][NextProc]_vars

(***************************************************************************)
(* The engine driven by ingest_stream with the records of one file, f1,    *)
(* opened, read, written and closed, and with close records of another     *)
(* file, OtherFile.                                                        *)
(***************************************************************************)
OpenRec(pr, f, pth) ==
    Record("audit:event:aue_open_rwtc:", pr, None, f, pth, None, None, 0)

ReadRec(pr, f, n) ==
    Record("audit:event:aue_read:", pr, f, None, None, None, None, n)

FileOpen ==
    /\ Idle
    /\ Process(OpenRec("p1", "f1", "/a"))

FileRead ==
    /\ Idle
    /\ Process(ReadRec("p1", "f1", 7))

FileWrite ==
    /\ Idle
    /\ \E pr \in ProcUuids : Process(WriteRec(pr, "f1", 7))

FileClose ==
    /\ Idle
    /\ Process(CloseRec("p1", "f1"))

OtherClose ==
    /\ Idle
    /\ Process(CloseRec("p1", OtherFile))

NextFile ==
    \/ IngestInit
    \/ FileOpen
    \/ FileRead
    \/ FileWrite
    \/ FileClose
    \/ OtherClose

SpecFile == Init /\ [][NextFile]_vars

(***************************************************************************)
(* The engine driven by ingest_stream with records whose object UUID is    *)
(* the UUID of the subject process or another one.                         *)
(***************************************************************************)
SameFork ==
    /\ Idle
    /\ \E ch \in ProcUuids : Process(ForkRec("p1", ch, 4242))

SameRead ==
    /\ Idle
    /\ \E u \in {"p1", "f1"} : Process(ReadRec("p1", u, 7))

SameWrite ==
    /\ Idle
    /\ \E u \in {"p1", "f1"} : Process(WriteRec("p1", u, 7))

SameClose ==
    /\ Idle
    /\ \E u \in {"p1", "f1"} : Process(CloseRec("p1", u))

NextSame ==
    \/ IngestInit
    \/ SameFork
    \/ SameRead
    \/ SameWrite
    \/ SameClose

SpecSame == Init /\ [][NextSame]_vars

(***************************************************************************)
(* The operations that return an Inf edge, on two processes, a file and a  *)
(* socket, with derive as posix_fork calls it (cadets.rs:208-216).         *)
(***************************************************************************)
EdgeDecls ==
    {<<PROCESS, "p1">>, <<PROCESS, "p2">>, <<FILE, "f1">>, <<SOCKET, "s1">>}

EdgeDeclare ==
    /\ InTr
    /\ \E d \in EdgeDecls :
          Returned("declare", declare(tr, d[1], d[2], EmptyMap))

EdgeDerive ==
    /\ InTr
    /\ \E src \in Nodes, dst \in ProcUuids :
          Returned("derive", derive(tr, src, dst))

NextEdge ==
    \/ RegisterTypes
    \/ Transaction
    \/ EdgeDeclare
    \/ EdgeDerive
    \/ AnySource
    \/ AnySourceNbytes
    \/ AnySink
    \/ AnySinkstart
    \/ AnyConnect

SpecEdge == Init /\ [][NextEdge]_vars

(***************************************************************************)
(* Records of every kind of event name: with a handler, ignored, and       *)
(* without a handler.                                                      *)
(***************************************************************************)
\* event names that the match of AuditEvent::parse sends to its last arm
OtherEvents == {"audit:event:aue_mkdir:", "audit:event:aue_kill:"}

\* a record whose event name has no handler, or is the ignored aue_dup2
EvtOther ==
    /\ Idle
    /\ \E ev \in OtherEvents \cup {"audit:event:aue_dup2:"} :
          \E pr \in ProcUuids :
              Process(Record(ev, pr, None, None, None, None, None, 0))

NextEvt ==
    \/ IngestInit
    \/ EvtOther
    \/ IngestRead
    \/ IngestWrite
    \/ IngestExit

SpecEvt == Init /\ [][NextEvt]_vars

(***************************************************************************)
(* Several streams ingested on one pipeline: every ingest_stream begins    *)
(* with T::init(pvm) (ingest/mod.rs:64, engine.rs:225-247).                *)
(***************************************************************************)
\* the schema nodes sent to the views so far
SchemaSent ==
    SelectSeq(pvm.persist_pipe, LAMBDA e : e.ent.cls = "Schema")

\* T::init(pvm) at the start of a further stream
StreamInit ==
    /\ Idle
    /\ pvm.type_cache # {}
    /\ Len(SchemaSent) < 6 * MaxStreams
    /\ pvm' = init(pvm)
    /\ last' = Did("init", "Ok")
    /\ UNCHANGED <<tr, aborted, ntx, nops>>
    /\ UNCHANGED viewVars
    /\ UNCHANGED <<ingestVars, shutVars, pipeline>>

NextStreams ==
    \/ IngestInit
    \/ StreamInit
    \/ IngestRead
    \/ IngestExit

SpecStreams == Init /\ [][NextStreams]_vars

(***************************************************************************)
(* ingest_stream (ingest/mod.rs:59-127): the lines of the stream are read  *)
(* in batches of BatchSize, each batch is decoded by parallel workers and  *)
(* collected, and the applier hands the decoded records to process.        *)
(***************************************************************************)
\* what a line of the stream is: a record that process accepts, a record
\* for which process returns an error, a record on which process panics
\* (an object lent twice, pvm.rs:312-313), a line that is not a record, a
\* line that cannot be read, and an empty line or a bracket
LineKinds == {"rec", "err", "panic", "json", "io", "skip"}

\* the input streams: line n of the stream is lines[n]
Streams ==
    UNION {[1..k -> LineKinds] : k \in 0..MaxLines}

\* one turn of the inner while loop on line n with text l: a line that
\* cannot be read is logged, an empty line and a bracket are passed over,
\* any other line is pushed onto pre_vec
read_line(l, n, pre) ==
    IF l \in {"io", "skip"} THEN pre ELSE Append(pre, n)

\* serde_json::from_slice on line n
decode(l) == IF l = "json" THEN "None" ELSE "Some"

\* a collection that holds the results in the order the workers finish:
\* the result takes the first free place
collect_finished(post, i, evt) ==
    LET k == CHOOSE j \in 1..Len(post) :
                 post[j].evt = "pending"
                 /\ \A h \in 1..(j - 1) : post[h].evt # "pending"
    IN [post EXCEPT ![i] = post[k], ![k] = [n |-> post[i].n, evt |-> evt]]

\* collect_into_vec: the result of the worker for item i of pre_vec is
\* item i of post_vec
collect_into_vec(post, i, evt) == [post EXCEPT ![i].evt = evt]

\* Mapped::process on the record of line n
process(l) ==
    IF l = "err" THEN "Err" ELSE IF l = "panic" THEN "panic" ELSE "Ok"

Reading(n) == [pc |-> "read", n |-> n]

InitIngest ==
    /\ pvm = New
    /\ tr = NoTr
    /\ aborted = FALSE
    /\ ntx = 0
    /\ nops = 0
    /\ last = Did("new", "Ok")
    /\ store_ops = <<>>
    /\ ncommit = 0
    /\ recv = <<>>
    /\ thread = Waiting
    /\ streams = <<>>
    /\ insts = <<>>
    /\ bcast = <<>>
    /\ joined = <<>>
    /\ lines \in Streams
    /\ pre_vec = <<>>
    /\ post_vec = <<>>
    /\ applied = <<>>
    /\ ipc = Reading(0)
    /\ shut = Running
    /\ vdone = {}
    /\ pipeline = NoPipeline

\* lines.next() gives a line
ReadLine ==
    /\ ipc.pc = "read"
    /\ Len(pre_vec) < BatchSize
    /\ ipc.n < Len(lines)
    /\ pre_vec' = read_line(lines[ipc.n + 1], ipc.n + 1, pre_vec)
    /\ ipc' = Reading(ipc.n + 1)
    /\ UNCHANGED <<lines, post_vec, applied>>
    /\ UNCHANGED <<engineVars, viewVars, shutVars, pipeline>>

\* the batch is full or the stream at its end: the workers start
StartParse ==
    /\ ipc.pc = "read"
    /\ Len(pre_vec) = BatchSize \/ ipc.n >= Len(lines)
    /\ post_vec' = [i \in 1..Len(pre_vec) |->
                       [n |-> pre_vec[i], evt |-> "pending"]]
    /\ ipc' = [ipc EXCEPT !.pc = "parse"]
    /\ UNCHANGED <<lines, pre_vec, applied>>
    /\ UNCHANGED <<engineVars, viewVars, shutVars, pipeline>>

\* a worker of par_iter().map() finishes an item of pre_vec, in any order
ParseWorker ==
    /\ ipc.pc = "parse"
    /\ \E i \in 1..Len(pre_vec) :
          /\ \A j \in 1..Len(post_vec) :
                post_vec[j].n = pre_vec[i] => post_vec[j].evt = "pending"
          /\ \E j \in 1..Len(post_vec) :
                /\ post_vec[j].n = pre_vec[i]
                /\ post_vec' = collect_into_vec(post_vec, j,
                                                decode(lines[pre_vec[i]]))
    /\ UNCHANGED <<lines, pre_vec, applied, ipc>>
    /\ UNCHANGED <<engineVars, viewVars, shutVars, pipeline>>

\* collect_into_vec returns when every worker has finished
Collected ==
    /\ ipc.pc = "parse"
    /\ \A j \in 1..Len(post_vec) : post_vec[j].evt # "pending"
    /\ ipc' = [ipc EXCEPT !.pc = "apply"]
    /\ UNCHANGED <<lines, pre_vec, post_vec, applied>>
    /\ UNCHANGED <<engineVars, viewVars, shutVars, pipeline>>

\* one turn of `for (n, tr) in post_vec.drain(..)`; a panic of process
\* unwinds ingest_stream
Apply ==
    /\ ipc.pc = "apply"
    /\ post_vec # <<>>
    /\ post_vec' = Tail(post_vec)
    /\ LET h == Head(post_vec)
       IN IF h.evt = "Some"
          THEN /\ applied' = Append(applied,
                                    [n |-> h.n, res |-> process(lines[h.n])])
               /\ ipc' = IF process(lines[h.n]) = "panic"
                         THEN [ipc EXCEPT !.pc = "panicked"]
                         ELSE ipc
          ELSE UNCHANGED <<applied, ipc>>
    /\ UNCHANGED <<lines, pre_vec>>
    /\ UNCHANGED <<engineVars, viewVars, shutVars, pipeline>>

\* the end of the outer loop: a short batch was the last one
EndBatch ==
    /\ ipc.pc = "apply"
    /\ post_vec = <<>>
    /\ ipc' = [ipc EXCEPT !.pc = IF Len(pre_vec) < BatchSize THEN "done"
                                 ELSE "read"]
    /\ pre_vec' = <<>>
    /\ UNCHANGED <<lines, post_vec, applied>>
    /\ UNCHANGED <<engineVars, viewVars, shutVars, pipeline>>

NextIngest ==
    \/ ReadLine
    \/ StartParse
    \/ ParseWorker
    \/ Collected
    \/ Apply
    \/ EndBatch

SpecIngest == InitIngest /\ [][NextIngest]_vars

\* the thread of ingest_stream and the workers are scheduled
SpecIngestFair == SpecIngest /\ WF_vars(NextIngest)

(***************************************************************************)
(* The DBStore of one transaction driven through its public operations     *)
(* create_node, update_node, create_rel and update_rel (db.rs:43-61) with  *)
(* any entities, and flushed by the commit of the transaction. The         *)
(* transaction carries the log of the operations its DBStore accepted.     *)
(***************************************************************************)
\* the entities handed to the DBStore: two nodes and one relationship, each
\* with two payloads
StoreNodes ==
    {DataNode("Actor", PROCESS, n, "p1", [k \in {"pid"} |-> v]) :
        n \in {8, 9}, v \in {"1", "2"}}

StoreRels ==
    {[InfRel(10, 8, 9, "Source", 7) EXCEPT !.byte_count = b] : b \in {0, 7}}

StoreInputs ==
    {DBTr(o, e) : o \in {"CreateNode", "UpdateNode"}, e \in StoreNodes}
    \cup {DBTr(o, e) : o \in {"CreateRel", "UpdateRel"}, e \in StoreRels}

\* a transaction, begun after the types were registered, with its log
InitStore ==
    /\ pvm = init(New)
    /\ tr = [log |-> <<>>] @@ start(init(New))
    /\ aborted = FALSE
    /\ ntx = 1
    /\ nops = 0
    /\ last = Did("transaction", "Ok")
    /\ store_ops = <<>>
    /\ ncommit = 0
    /\ recv = <<>>
    /\ thread = Waiting
    /\ streams = <<>>
    /\ insts = <<>>
    /\ bcast = <<>>
    /\ joined = <<>>
    /\ lines = <<>>
    /\ pre_vec = <<>>
    /\ post_vec = <<>>
    /\ applied = <<>>
    /\ ipc = [pc |-> "done", n |-> 0]
    /\ shut = Running
    /\ vdone = {}
    /\ pipeline = NoPipeline

\* DBStore::insert(op) through one of the four operations: unreachable!()
\* aborts the engine
StoreInsert(op) ==
    /\ InTr
    /\ nops < MaxOps
    /\ nops' = nops + 1
    /\ last' = Did(op.op, DbInsert(tr, op).err)
    /\ UNCHANGED <<pvm, ntx>>
    /\ UNCHANGED viewVars
    /\ UNCHANGED <<ingestVars, shutVars, pipeline>>
    /\ IF DbInsert(tr, op).err = "panic"
       THEN aborted' = TRUE /\ tr' = tr
       ELSE /\ aborted' = aborted
            /\ tr' = [DbInsert(tr, op) EXCEPT !.log = Append(@, op)]

StoreCreateNode ==
    /\ InTr
    /\ \E e \in StoreNodes : StoreInsert(DBTr("CreateNode", e))

StoreUpdateNode ==
    /\ InTr
    /\ \E e \in StoreNodes : StoreInsert(DBTr("UpdateNode", e))

StoreCreateRel ==
    /\ InTr
    /\ \E e \in StoreRels : StoreInsert(DBTr("CreateRel", e))

StoreUpdateRel ==
    /\ InTr
    /\ \E e \in StoreRels : StoreInsert(DBTr("UpdateRel", e))

\* PVMTransaction::commit with DBStore::commit
StoreCommit ==
    /\ InTr
    /\ ~CommitPanics(tr)
    /\ pvm' = commit(pvm, tr)
    /\ tr' = [log |-> <<>>] @@ NoTr
    /\ last' = Did("commit", IF Len(tr.db) = 0 THEN "empty" ELSE "Ok")
    /\ UNCHANGED <<aborted, ntx, nops>>
    /\ UNCHANGED viewVars
    /\ UNCHANGED <<ingestVars, shutVars, pipeline>>

NextStore ==
    \/ StoreCreateNode
    \/ StoreUpdateNode
    \/ StoreCreateRel
    \/ StoreUpdateRel
    \/ StoreCommit

SpecStore == InitStore /\ [][NextStore]_vars

(***************************************************************************)
(* The path of the change events from the engine to the views:             *)
(* DBStore::commit sends the buffered events one at a time on the bounded  *)
(* engine->coordinator channel (ingest/db.rs:121-125, engine.rs:138); the  *)
(* ViewCoordinator thread takes an event, locks streams and sends the      *)
(* event on the bounded channel of every view instance in turn             *)
(* (pvm-views/src/lib.rs:122-135); each view thread takes the events off   *)
(* its channel.                                                            *)
(***************************************************************************)
\* a send that drops the event instead of blocking on a full channel
try_send(q, e, cap) ==
    IF Len(q) >= cap THEN [blocked |-> FALSE, q |-> q]
    ELSE [blocked |-> FALSE, q |-> Append(q, e)]

\* SyncSender::send on a channel of capacity cap holding q: the sender
\* blocks while the channel is full, and the event is appended otherwise
send(q, e, cap) ==
    IF Len(q) >= cap THEN [blocked |-> TRUE, q |-> q]
    ELSE [blocked |-> FALSE, q |-> Append(q, e)]

\* a flush that takes the ops from the back of the vector
drain_back(o) == [op |-> o[Len(o)], rest |-> SubSeq(o, 1, Len(o) - 1)]

\* `for op in self.ops` in DBStore::commit: the op taken and those left
drain(o) == [op |-> Head(o), rest |-> Tail(o)]

\* the numbers of events of the DBStores committed
BatchSizes == {1, 2}

\* PVMTransaction::commit calls DBStore::commit with a non-empty DBStore
DBStoreCommit ==
    /\ store_ops = <<>>
    /\ ncommit < MaxCommits
    /\ ncommit' = ncommit + 1
    /\ \E n \in BatchSizes :
          store_ops' = [k \in 1..n |-> Evt(ncommit + 1, k)]
    /\ UNCHANGED <<recv, thread, streams, insts, bcast, joined>>
    /\ UNCHANGED engineVars
    /\ UNCHANGED <<ingestVars, shutVars, pipeline>>

\* DB::op: one event is sent on persist_pipe
DBOp ==
    /\ store_ops # <<>>
    /\ LET d == drain(store_ops)
           r == send(recv, d.op, PipeCap)
       IN /\ ~r.blocked
          /\ recv' = r.q
          /\ store_ops' = d.rest
    /\ UNCHANGED <<ncommit, thread, streams, insts, bcast, joined>>
    /\ UNCHANGED engineVars
    /\ UNCHANGED <<ingestVars, shutVars, pipeline>>

\* `for evt in recv`: the coordinator thread takes the next event
ThreadRecv ==
    /\ thread.pc = "recv"
    /\ recv # <<>>
    /\ thread' = [pc |-> "lock", evt |-> Head(recv), i |-> 0]
    /\ recv' = Tail(recv)
    /\ UNCHANGED <<store_ops, ncommit, streams, insts, bcast, joined>>
    /\ UNCHANGED engineVars
    /\ UNCHANGED <<ingestVars, shutVars, pipeline>>

\* thread_streams.lock(): the mutex is free whenever the thread asks for it
\* since create_view_with_id holds it for the push only
ThreadLock ==
    /\ thread.pc = "lock"
    /\ thread' = [thread EXCEPT !.pc = "send", !.i = 1]
    /\ bcast' = Append(bcast, thread.evt)
    /\ UNCHANGED <<store_ops, ncommit, recv, streams, insts, joined>>
    /\ UNCHANGED engineVars
    /\ UNCHANGED <<ingestVars, shutVars, pipeline>>

\* stream.send(v.clone()) for the next stream of strs.iter_mut()
ThreadSend ==
    /\ thread.pc = "send"
    /\ thread.i <= Len(streams)
    /\ LET r == send(streams[thread.i], thread.evt, StreamCap)
       IN /\ ~r.blocked
          /\ streams' = [streams EXCEPT ![thread.i] = r.q]
    /\ thread' = [thread EXCEPT !.i = @ + 1]
    /\ UNCHANGED <<store_ops, ncommit, recv, insts, bcast, joined>>
    /\ UNCHANGED engineVars
    /\ UNCHANGED <<ingestVars, shutVars, pipeline>>

\* the end of the block: the guard on streams is dropped
ThreadUnlock ==
    /\ thread.pc = "send"
    /\ thread.i > Len(streams)
    /\ thread' = Waiting
    /\ UNCHANGED <<store_ops, ncommit, recv, streams, insts, bcast, joined>>
    /\ UNCHANGED engineVars
    /\ UNCHANGED <<ingestVars, shutVars, pipeline>>

\* ViewCoordinator::create_view_with_id: the view thread is started and the
\* sender of its channel pushed onto streams under the mutex
create_view_with_id ==
    /\ thread.pc # "send"
    /\ Len(streams) < MaxViews
    /\ streams' = Append(streams, <<>>)
    /\ insts' = Append(insts, <<>>)
    /\ joined' = Append(joined, Len(bcast))
    /\ UNCHANGED <<store_ops, ncommit, recv, thread, bcast>>
    /\ UNCHANGED engineVars
    /\ UNCHANGED <<ingestVars, shutVars, pipeline>>

\* the thread of view instance v takes an event off its channel
ViewRecv(v) ==
    /\ streams[v] # <<>>
    /\ insts' = [insts EXCEPT ![v] = Append(@, Head(streams[v]))]
    /\ streams' = [streams EXCEPT ![v] = Tail(@)]
    /\ UNCHANGED <<store_ops, ncommit, recv, thread, bcast, joined>>
    /\ UNCHANGED engineVars
    /\ UNCHANGED <<ingestVars, shutVars, pipeline>>

ViewsRecv == \E v \in 1..Len(streams) : ViewRecv(v)

NextView ==
    \/ DBStoreCommit
    \/ DBOp
    \/ ThreadRecv
    \/ ThreadLock
    \/ ThreadSend
    \/ ThreadUnlock
    \/ create_view_with_id
    \/ ViewsRecv

SpecView == Init /\ [][NextView]_vars

\* every thread that can take a step is scheduled eventually; a view may
\* stall for any finite time
SpecViewFair ==
    /\ SpecView
    /\ WF_vars(DBOp)
    /\ WF_vars(ThreadRecv)
    /\ WF_vars(ThreadLock)
    /\ WF_vars(ThreadSend)
    /\ WF_vars(ThreadUnlock)
    /\ \A v \in 1..MaxViews : WF_vars(v <= Len(streams) /\ ViewRecv(v))

(***************************************************************************)
(* Engine::shutdown_pipeline (engine.rs:149-157) over the path of the      *)
(* change events: the PVM is dropped, which drops the sender of the        *)
(* engine->coordinator channel, and ViewCoordinator::shutdown              *)
(* (pvm-views/src/lib.rs:187-193) joins the coordinator thread, clears     *)
(* streams and joins the view threads.                                     *)
(***************************************************************************)
\* the sender of the engine->coordinator channel has been dropped
PipeClosed == shut.pc # "run"

\* the senders of the view channels have been dropped
StreamsClosed == shut.pc \in {"join_views", "done"}

\* a transaction commits while the pipeline runs
PipelineCommit ==
    /\ shut.pc = "run"
    /\ DBStoreCommit

\* Engine::create_view_by_id while the pipeline runs
PipelineCreateView ==
    /\ shut.pc = "run"
    /\ create_view_with_id

\* shutdown_pipeline takes the pipeline and calls PVM::shutdown, which
\* consumes the PVM; no DBStore::commit is under way in the caller
PvmShutdown ==
    /\ shut.pc = "run"
    /\ store_ops = <<>>
    /\ shut' = [shut EXCEPT !.pc = "join_thread"]
    /\ UNCHANGED vdone
    /\ UNCHANGED <<engineVars, viewVars, ingestVars, pipeline>>

\* `for evt in recv` ends: the channel is empty and its sender dropped
ThreadExit ==
    /\ thread.pc = "recv"
    /\ recv = <<>>
    /\ PipeClosed
    /\ thread' = [thread EXCEPT !.pc = "exited"]
    /\ UNCHANGED <<store_ops, ncommit, recv, streams, insts, bcast, joined>>
    /\ UNCHANGED <<engineVars, ingestVars, shutVars, pipeline>>

\* self.thread.join() returns
JoinThread ==
    /\ shut.pc = "join_thread"
    /\ thread.pc = "exited"
    /\ shut' = [shut EXCEPT !.pc = "clear"]
    /\ UNCHANGED vdone
    /\ UNCHANGED <<engineVars, viewVars, ingestVars, pipeline>>

\* self.streams.lock().unwrap().clear(): the senders are dropped, the
\* events in the channels stay
ClearStreams ==
    /\ shut.pc = "clear"
    /\ shut' = [pc |-> "join_views", v |-> 1]
    /\ UNCHANGED vdone
    /\ UNCHANGED <<engineVars, viewVars, ingestVars, pipeline>>

\* `for tr in stream` of view instance v ends (views/dbg.rs:49,
\* views/process_tree.rs:92): its channel is empty and the sender dropped
ViewExit(v) ==
    /\ StreamsClosed
    /\ streams[v] = <<>>
    /\ v \notin vdone
    /\ vdone' = vdone \cup {v}
    /\ UNCHANGED shut
    /\ UNCHANGED <<engineVars, viewVars, ingestVars, pipeline>>

ViewsExit == \E v \in 1..Len(streams) : ViewExit(v)

\* view.join() for the next instance of self.insts
JoinView ==
    /\ shut.pc = "join_views"
    /\ shut.v <= Len(streams)
    /\ shut.v \in vdone
    /\ shut' = [shut EXCEPT !.v = @ + 1]
    /\ UNCHANGED vdone
    /\ UNCHANGED <<engineVars, viewVars, ingestVars, pipeline>>

\* the loop over self.insts is over: shutdown_pipeline returns Ok(())
ShutdownReturn ==
    /\ shut.pc = "join_views"
    /\ shut.v > Len(streams)
    /\ shut' = [shut EXCEPT !.pc = "done"]
    /\ UNCHANGED vdone
    /\ UNCHANGED <<engineVars, viewVars, ingestVars, pipeline>>

NextShut ==
    \/ PipelineCommit
    \/ DBOp
    \/ ThreadRecv
    \/ ThreadLock
    \/ ThreadSend
    \/ ThreadUnlock
    \/ PipelineCreateView
    \/ ViewsRecv
    \/ PvmShutdown
    \/ ThreadExit
    \/ JoinThread
    \/ ClearStreams
    \/ ViewsExit
    \/ JoinView
    \/ ShutdownReturn

SpecShut == Init /\ [][NextShut]_vars

\* every thread that can take a step is scheduled eventually, and every
\* view thread keeps taking the events off its channel until it is closed
SpecShutFair ==
    /\ SpecShut
    /\ WF_vars(DBOp)
    /\ WF_vars(ThreadRecv)
    /\ WF_vars(ThreadLock)
    /\ WF_vars(ThreadSend)
    /\ WF_vars(ThreadUnlock)
    /\ WF_vars(ThreadExit)
    /\ WF_vars(JoinThread)
    /\ WF_vars(ClearStreams)
    /\ WF_vars(JoinView)
    /\ WF_vars(ShutdownReturn)
    /\ \A v \in 1..MaxViews : WF_vars(v <= Len(streams) /\ ViewRecv(v))
    /\ \A v \in 1..MaxViews : WF_vars(v <= Len(streams) /\ ViewExit(v))

(***************************************************************************)
(* Engine (engine.rs:103-246) and the tables of its ViewCoordinator        *)
(* (pvm-views/src/lib.rs:104-185). The operations of the coordinator are   *)
(* functions from its tables c to the tables, the result and the value     *)
(* returned.                                                               *)
(***************************************************************************)
\* the view types offered for registration, by View::name
ViewNames == {"Neo4JView", "DBGView", "ProcTreeView"}

\* the view type ids handed to create_view_by_id
ViewIDs == 0..Cardinality(ViewNames)

\* what an operation leaves: the tables, the result and the value
Out(c, res, ret) == [c |-> c, res |-> res, ret |-> ret]

\* the call made last, with its argument, its result and its value
Called(op, arg, r) == [op |-> op, arg |-> arg, res |-> r.res, ret |-> r.ret]

\* a registration that takes the type id before it looks at the name map
register_view_type_eager(c, nm) ==
    IF Has(c.view_name_map, nm)
    THEN Out([c EXCEPT !.vid_gen = @ + 1], "DuplicateViewName", 0)
    ELSE Out([c EXCEPT !.vid_gen = @ + 1,
                       !.view_name_map = Put(@, nm, c.vid_gen),
                       !.views = Put(@, c.vid_gen, nm)],
             "Ok", c.vid_gen)

\* ViewCoordinator::register_view_type::<T>() with T::name() = nm
register_view_type(c, nm) ==
    IF Has(c.view_name_map, nm) THEN Out(c, "DuplicateViewName", 0)
    ELSE Out([c EXCEPT !.vid_gen = @ + 1,
                       !.view_name_map = Put(@, nm, c.vid_gen),
                       !.views = Put(@, c.vid_gen, nm)],
             "Ok", c.vid_gen)

\* ViewCoordinator::create_view_with_id
CreateViewWithId(c, id) ==
    IF Has(c.views, id)
    THEN Out([c EXCEPT !.viid_gen = @ + 1,
                       !.insts = Append(@, [id |-> c.viid_gen, vtype |-> id])],
             "Ok", c.viid_gen)
    ELSE Out(c, "MissingViewID", 0)

\* ViewCoordinator::create_view_with_name
create_view_with_name(c, nm) ==
    IF Has(c.view_name_map, nm) THEN CreateViewWithId(c, c.view_name_map[nm])
    ELSE Out(c, "MissingViewName", 0)

\* ViewCoordinator::new followed by the registration of Neo4JView; no
\* plugin is loaded
NewPipeline ==
    register_view_type([NoPipeline EXCEPT !.running = TRUE], "Neo4JView").c

\* a get_pipeline that hands out the last pipeline whether or not the
\* engine holds one
get_pipeline_stale(p) == "Ok"

\* Engine::get_pipeline / get_pipeline_mut
get_pipeline(p) == IF p.running THEN "Ok" ELSE "PipelineNotRunning"

\* what the engine and the view path hold beside last
engineRest == <<pvm, tr, aborted, ntx, nops>>

\* Engine::init_pipeline; ViewCoordinator::new fails if the thread cannot
\* be spawned
init_pipeline ==
    /\ \E spawned \in BOOLEAN :
          LET r == IF pipeline.running
                   THEN Out(pipeline, "PipelineRunning", 0)
                   ELSE IF ~spawned THEN Out(pipeline, "ThreadingErr", 0)
                   ELSE Out(NewPipeline, "Ok", 0)
          IN /\ pipeline' = r.c
             /\ last' = Called("init_pipeline", "", r)
    /\ UNCHANGED <<engineRest, viewVars, ingestVars, shutVars>>

\* Engine::shutdown_pipeline
shutdown_pipeline ==
    /\ LET r == IF pipeline.running THEN Out(NoPipeline, "Ok", 0)
                ELSE Out(pipeline, "PipelineNotRunning", 0)
       IN /\ pipeline' = r.c
          /\ last' = Called("shutdown_pipeline", "", r)
    /\ UNCHANGED <<engineRest, viewVars, ingestVars, shutVars>>

\* Engine::register_view_type
EngineRegisterViewType ==
    /\ \E nm \in ViewNames :
          LET r == IF get_pipeline(pipeline) # "Ok"
                   THEN Out(pipeline, get_pipeline(pipeline), 0)
                   ELSE register_view_type(pipeline, nm)
          IN /\ pipeline' = r.c
             /\ last' = Called("register_view_type", nm, r)
    /\ UNCHANGED <<engineRest, viewVars, ingestVars, shutVars>>

\* Engine::create_view_by_id
create_view_by_id ==
    /\ pipeline.viid_gen < MaxViews
    /\ \E id \in ViewIDs :
          LET r == IF get_pipeline(pipeline) # "Ok"
                   THEN Out(pipeline, get_pipeline(pipeline), 0)
                   ELSE CreateViewWithId(pipeline, id)
          IN /\ pipeline' = r.c
             /\ last' = Called("create_view_by_id", id, r)
    /\ UNCHANGED <<engineRest, viewVars, ingestVars, shutVars>>

\* Engine::create_view_by_name
create_view_by_name ==
    /\ pipeline.viid_gen < MaxViews
    /\ \E nm \in ViewNames :
          LET r == IF get_pipeline(pipeline) # "Ok"
                   THEN Out(pipeline, get_pipeline(pipeline), 0)
                   ELSE create_view_with_name(pipeline, nm)
          IN /\ pipeline' = r.c
             /\ last' = Called("create_view_by_name", nm, r)
    /\ UNCHANGED <<engineRest, viewVars, ingestVars, shutVars>>

\* Engine::init_persistance
init_persistance ==
    /\ pipeline.viid_gen < MaxViews
    /\ LET r == IF get_pipeline(pipeline) # "Ok"
                THEN Out(pipeline, get_pipeline(pipeline), 0)
                ELSE create_view_with_name(pipeline, "Neo4JView")
       IN /\ pipeline' = r.c
          /\ last' = Called("init_persistance", "Neo4JView", r)
    /\ UNCHANGED <<engineRest, viewVars, ingestVars, shutVars>>

\* Engine::list_view_types: the names of the registered types
list_view_types ==
    /\ LET r == IF get_pipeline(pipeline) # "Ok"
                THEN Out(pipeline, get_pipeline(pipeline), 0)
                ELSE Out(pipeline, "Ok", Image(pipeline.views))
       IN /\ pipeline' = r.c
          /\ last' = Called("list_view_types", "", r)
    /\ UNCHANGED <<engineRest, viewVars, ingestVars, shutVars>>

\* Engine::list_running_views
list_running_views ==
    /\ LET r == IF get_pipeline(pipeline) # "Ok"
                THEN Out(pipeline, get_pipeline(pipeline), 0)
                ELSE Out(pipeline, "Ok", pipeline.insts)
       IN /\ pipeline' = r.c
          /\ last' = Called("list_running_views", "", r)
    /\ UNCHANGED <<engineRest, viewVars, ingestVars, shutVars>>

\* Engine::ingest_stream, ingest_reader, init_record and ingest_record:
\* what they do to the PVM is left out, the tables of the coordinator are
\* not theirs to change
EngineIngest ==
    /\ \E op \in {"ingest_stream", "ingest_reader", "init_record",
                  "ingest_record"} :
          LET r == IF get_pipeline(pipeline) # "Ok"
                   THEN Out(pipeline, get_pipeline(pipeline), 0)
                   ELSE Out(pipeline, "Ok", 0)
          IN /\ pipeline' = r.c
             /\ last' = Called(op, "", r)
    /\ UNCHANGED <<engineRest, viewVars, ingestVars, shutVars>>

\* Drop for Engine, and Engine::new for the next engine: the result of
\* shutdown_pipeline is discarded
EngineDrop ==
    /\ pipeline' = NoPipeline
    /\ last' = Called("drop", "", Out(NoPipeline, "Ok", 0))
    /\ UNCHANGED <<engineRest, viewVars, ingestVars, shutVars>>

NextEngine ==
    \/ init_pipeline
    \/ shutdown_pipeline
    \/ EngineRegisterViewType
    \/ create_view_by_id
    \/ create_view_by_name
    \/ init_persistance
    \/ list_view_types
    \/ list_running_views
    \/ EngineIngest
    \/ EngineDrop

SpecEngine == Init /\ [][NextEngine]_vars

(***************************************************************************)
(* Properties.                                                             *)
(***************************************************************************)
\* the indices, the stores and the ID counter of a PVM
Stores(p) ==
    <<p.uuid_cache, p.node_cache, p.rel_cache, p.rel_src_dst_cache,
      p.name_cache, p.open_cache, p.id>>

\* C1: after rollback the PVM state (UUID->ID map, node store, relationship
\* store, (kind,src,dst) index, name cache, open_cache and ID counter) is
\* the state before the transaction was begun. The PVM is not written while
\* a transaction is in flight, so that state is the one rollback starts in.
C1_RollbackRestores == [][Rollback => Stores(pvm') = Stores(pvm)]_vars

\* the events a step sends to the views
Sent == SubSeq(pvm'.persist_pipe, Len(pvm.persist_pipe) + 1,
               Len(pvm'.persist_pipe))

\* C2: a committed transaction that buffered no change event sends nothing
\* and leaves the ID counter as it was, and the context node is sent as
\* CreateNode if and only if the committed transaction buffered an event.
C2_ContextIffEvents ==
    [][(Commit /\ ~aborted') =>
          /\ (Len(tr.db) = 0 => Sent = <<>> /\ pvm'.id = pvm.id)
          /\ (Len(tr.db) > 0 <=>
                \E i \in 1..Len(Sent) :
                    Sent[i] = DBTr("CreateNode", tr.ctx_node))]_vars

\* C2 witness: a transaction that changed an index (released a UUID) but
\* buffered no event has been committed
C2_Witness ==
    /\ last = Did("commit", "empty")
    /\ pvm.id = 9
    /\ ~Has(pvm.uuid_cache, "p1")

\* the IDs of the data nodes sent to the views as CreateNode for UUID u
Versions(u) ==
    {pvm.persist_pipe[i].ent.id : i \in
        {j \in 1..Len(pvm.persist_pipe) :
            /\ pvm.persist_pipe[j].op = "CreateNode"
            /\ pvm.persist_pipe[j].ent.cls = "Data"
            /\ pvm.persist_pipe[j].ent.uuid = u}}

\* C3: between transactions the UUID->ID map is injective, its image is the
\* set of IDs held in the node store and every UUID maps to the version
\* created last for it.
C3_UuidMap ==
    Idle =>
        /\ \A u, v \in DOMAIN pvm.uuid_cache :
              pvm.uuid_cache[u] = pvm.uuid_cache[v] => u = v
        /\ Image(pvm.uuid_cache) = DOMAIN pvm.node_cache
        /\ \A u \in DOMAIN pvm.uuid_cache :
              /\ pvm.uuid_cache[u] \in Versions(u)
              /\ \A n \in Versions(u) : n <= pvm.uuid_cache[u]

\* the (kind, src, dst) triple of a relationship
Triple(r) == <<r.cls, r.src, r.dst>>

\* the stores as the engine sees them: through the transaction in flight
\* if there is one
Eff == IF tr.active THEN tr ELSE pvm

\* C4: at most one relationship ID exists in the relationship store for
\* each (kind, src, dst) triple.
C4_TripleUnique ==
    \A a, b \in DOMAIN Eff.rel_cache :
        Triple(Eff.rel_cache[a]) = Triple(Eff.rel_cache[b]) => a = b

\* the entities held in the stores of a PVM or of a transaction, and the
\* entities sent to the views
Held(p) ==
    Image(p.node_cache) \cup Image(p.rel_cache) \cup Image(p.name_cache)

Emitted == {pvm.persist_pipe[i].ent : i \in 1..Len(pvm.persist_pipe)}

\* what an entity is, whatever its mutable fields (meta, byte_count, end)
Identity(e) ==
    IF e.cls \in {"Inf", "Named"} THEN <<e.cls, e.id, e.src, e.dst>>
    ELSE <<e.cls, e.id, e.ty, e.uuid>>

\* the IDs sent in Create events, in the order sent
CreatedIDs ==
    LET idx == {i \in 1..Len(pvm.persist_pipe) : IsCreate(pvm.persist_pipe[i])}
    IN {pvm.persist_pipe[i].ent.id : i \in idx}

Before(a, b) == a.tx < b.tx \/ (a.tx = b.tx /\ a.k < b.k)

InOrder(q) == \A i, j \in 1..Len(q) : i < j => Before(q[i], q[j])

Upto(v) ==
    IF thread.pc = "send" /\ thread.i <= v THEN Len(bcast) - 1 ELSE Len(bcast)

\* no channel holds more than its capacity, and what view v has received
\* and has queued is exactly the events broadcast since it was registered,
\* each once and in the order broadcast
C7_ExactlyOnce ==
    /\ Len(recv) <= PipeCap
    /\ \A v \in 1..Len(streams) :
          /\ Len(streams[v]) <= StreamCap
          /\ insts[v] \o streams[v] = SubSeq(bcast, joined[v] + 1, Upto(v))

\* nothing is on its way to a view
Drained ==
    /\ store_ops = <<>>
    /\ recv = <<>>
    /\ thread.pc = "recv"
    /\ \A v \in 1..Len(streams) : streams[v] = <<>>

\* C7: a full view channel blocks the coordinator thread, and a full
\* engine->coordinator channel the applier, and nothing is dropped: every
\* event broadcast while a view is registered reaches the view exactly once
\* and in order, and whatever is pending behind a stalled view has arrived
\* some time after the view resumes.
C7_BackPressure == []C7_ExactlyOnce /\ []<>Drained

\* C7 witness: the view has consumed nothing, its channel is full, the
\* coordinator thread is blocked on it, the engine->coordinator channel
\* is full and the applier is blocked with an event in hand.
C7_Witness ==
    /\ Len(streams) >= 1
    /\ insts[1] = <<>>
    /\ Len(streams[1]) = StreamCap
    /\ thread.pc = "send" /\ thread.i = 1
    /\ Len(recv) = PipeCap
    /\ store_ops # <<>>

\* the current node of UUID u in PVM p is of PVM type pty
IsA(p, u, pty) ==
    /\ Has(p.uuid_cache, u)
    /\ Has(p.node_cache, p.uuid_cache[u])
    /\ p.node_cache[p.uuid_cache[u]].pvm_ty = pty

\* the IDs of all the entities created so far
UsedIDs == CreatedIDs

\* the Inf relationships of PVM p from src to dst with operation pvm_op
Edges(p, src, dst, pvm_op) ==
    {r \in Image(p.rel_cache) :
        r.cls = "Inf" /\ r.src = src /\ r.dst = dst /\ r.pvm_op = pvm_op}

\* C8: a write by pr to a file that is not in an edit session (sinkstart on
\* a Store) leaves a new EditSession version of the same UUID, a Version
\* edge to it from the version before, a Sink edge pr -> new version whose
\* byte_count is n, and open_cache[uuid] = {pr}; the close by the only
\* actor of the session (sinkend) leaves a new Store version with an ID
\* never used before and removes the UUID from open_cache.
C8_EditSessionCycle ==
    [][\A pr \in ProcUuids, f \in FileUuids :
        /\ \A n \in ByteCounts :
              (/\ Process(WriteRec(pr, f, n))
               /\ last'.res = "Ok"
               /\ ~IsA(pvm, f, "EditSession"))
              => /\ IsA(pvm', f, "EditSession")
                 /\ pvm'.uuid_cache[f] \notin UsedIDs
                 /\ pvm'.open_cache[f] = {pr}
                 /\ \E r \in Edges(pvm', pvm'.uuid_cache[pr],
                                   pvm'.uuid_cache[f], "Sink") :
                        r.byte_count = n
                 /\ \E s \in CreatedIDs' \ {pvm'.uuid_cache[f]} :
                        Edges(pvm', s, pvm'.uuid_cache[f], "Version") # {}
        /\ (/\ Process(CloseRec(pr, f))
            /\ last'.res = "Ok"
            /\ IsA(pvm, f, "EditSession")
            /\ Has(pvm.open_cache, f)
            /\ pvm.open_cache[f] = {pr})
           => /\ IsA(pvm', f, "Store")
              /\ pvm'.uuid_cache[f] \notin UsedIDs
              /\ Edges(pvm', pvm.uuid_cache[f], pvm'.uuid_cache[f],
                       "Version") # {}
              /\ ~Has(pvm'.open_cache, f)]_vars

\* C8 witness: file f1 was written, closed and written again by p1: it has
\* had four versions (Store, EditSession, Store, EditSession) and is in an
\* edit session held by p1 alone.
C8_Witness ==
    /\ last = Did("audit:event:aue_write:", "Ok")
    /\ Cardinality(Versions("f1")) = 4
    /\ IsA(pvm, "f1", "EditSession")
    /\ Has(pvm.open_cache, "f1")
    /\ pvm.open_cache["f1"] = {"p1"}

\* actor a holds an edit session on UUID u
Holds(p, u, a) ==
    /\ Has(p.open_cache, u)
    /\ a \in p.open_cache[u]
    /\ IsA(p, u, "EditSession")

\* the step is sinkend(a, u) on the current nodes of a and u
SinkendBy(a, u) ==
    /\ InTr
    /\ Has(tr.uuid_cache, a)
    /\ Has(tr.uuid_cache, u)
    /\ Returned("sinkend", sinkend(tr, tr.uuid_cache[a], tr.uuid_cache[u]))

\* C9: an actor that holds an edit session on a UUID (it issued sinkstart
\* and has not issued sinkend) keeps open_cache[uuid] non-empty and the
\* current node of the UUID an EditSession over every step that is not its
\* sinkend, a rollback leaving the sessions that were held before the
\* transaction; a sinkend by one of several writers removes that actor only
\* and creates no version.
C9_SessionHeld ==
    [][\A u \in FileUuids, a \in ProcUuids :
        /\ (/\ Holds(IF Rollback THEN pvm ELSE Eff, u, a)
            /\ ~SinkendBy(a, u)
            /\ ~Process(CloseRec(a, u))
            /\ ~aborted')
           => Holds(Eff', u, a)
        /\ (Holds(Eff, u, a) /\ SinkendBy(a, u) /\ ~aborted'
            /\ Eff.open_cache[u] # {a})
           => /\ Eff'.open_cache[u] = Eff.open_cache[u] \ {a}
              /\ Eff'.uuid_cache[u] = Eff.uuid_cache[u]
              /\ Eff'.id = Eff.id]_vars

\* the Inf relationships of a PVM by ID
Infs(p) == {i \in DOMAIN p.rel_cache : p.rel_cache[i].cls = "Inf"}

\* C10: whatever the records, negative retval included, the byte_count of
\* an Inf edge never decreases from one state to the next.
C10_ByteCountMonotonic ==
    [][\A i \in Infs(pvm) \cap Infs(pvm') :
          (pvm'.rel_cache[i].src = pvm.rel_cache[i].src
           /\ pvm'.rel_cache[i].dst = pvm.rel_cache[i].dst)
          => pvm'.rel_cache[i].byte_count >= pvm.rel_cache[i].byte_count]_vars

\* the transaction a call is made through: the one in flight, or the one
\* PVM::transaction would begin
Through(p, t) == IF t.active THEN t ELSE start(p)

\* the call declare(ty, u, None) with d = <<ty, u>>
Declared(t, d) == declare(t, d[1], d[2], EmptyMap)

\* the step is release(u)
ReleaseOf(u) == InTr /\ Returned("release", release(tr, u))

\* the step is a sink, a sinkstart or a sinkend on the current node of u
SinkStepOn(u) ==
    /\ InTr
    /\ Has(tr.uuid_cache, u)
    /\ \E act \in Acts :
          \/ Returned("sink", sink(tr, act, tr.uuid_cache[u]))
          \/ Returned("sinkstart", sinkstart(tr, act, tr.uuid_cache[u]))
          \/ Returned("sinkend", sinkend(tr, act, tr.uuid_cache[u]))

\* the number of CreateNode events sent to the views for node ID n
CreateNodes(n) ==
    Cardinality({i \in 1..Len(pvm.persist_pipe) :
                    /\ pvm.persist_pipe[i].op = "CreateNode"
                    /\ pvm.persist_pipe[i].ent.id = n})

\* a declare of d before the step and a declare of d after it return the
\* same ID, and the later one buffers no event; the calls of a transaction
\* that is rolled back do not count
SameDeclare(d) ==
    /\ Declared(Through(pvm', tr'), d).ret =
           Declared(IF Rollback THEN start(pvm) ELSE Through(pvm, tr), d).ret
    /\ Declared(Through(pvm', tr'), d).db = Through(pvm', tr').db

\* the UUID of d is bound to a node in the state the step starts in
BoundAt(d) ==
    Has((IF Rollback THEN start(pvm) ELSE Through(pvm, tr)).uuid_cache, d[2])

Issued(t, obj, n) ==
    /\ Has(t.name_cache, n)
    /\ Has(t.rel_src_dst_cache, <<RelKind("Named"), obj, t.name_cache[n].id>>)

\* the number of events op sent to the views that carry entity ID n
EventsOf(op, n) ==
    Cardinality({i \in 1..Len(pvm.persist_pipe) :
                    /\ pvm.persist_pipe[i].op = op
                    /\ pvm.persist_pipe[i].ent.id = n})

\* the objects that carry a name in the index of t
NamedObjs(t) == {k[2] : k \in DOMAIN t.rel_src_dst_cache}

\* a name(obj, n) before the step and a name(obj, n) after it return the
\* same relationship ID, and the later one buffers no event; the calls of a
\* transaction that is rolled back do not count
SameName(obj, n) ==
    /\ name(Through(pvm', tr'), obj, n).ret =
           name(IF Rollback THEN start(pvm) ELSE Through(pvm, tr), obj, n).ret
    /\ name(Through(pvm', tr'), obj, n).db = Through(pvm', tr').db

\* C12: once name(obj, n) has been issued, a further name(obj, n) returns
\* the same relationship ID and buffers no event, whatever was done in
\* between; and for a name(obj, n) of a committed transaction one NameNode
\* and one Named edge have been created: the views were sent one CreateNode
\* for the name node and one CreateRel for the edge, which is a Named edge
\* from obj to the name node.
C12_NameIdempotent ==
    /\ [](\A n \in DOMAIN pvm.name_cache, obj \in NamedObjs(pvm) :
            Issued(pvm, obj, n) =>
               /\ EventsOf("CreateNode", pvm.name_cache[n].id) = 1
               /\ EventsOf("CreateRel", name(start(pvm), obj, n).ret) = 1
               /\ \E i \in 1..Len(pvm.persist_pipe) :
                     /\ pvm.persist_pipe[i].op = "CreateRel"
                     /\ pvm.persist_pipe[i].ent.cls = "Named"
                     /\ pvm.persist_pipe[i].ent.src = obj
                     /\ pvm.persist_pipe[i].ent.dst = pvm.name_cache[n].id)
    /\ [][\A n \in Names :
            \A obj \in NamedObjs(IF Rollback THEN pvm ELSE Eff) :
               (Issued(IF Rollback THEN pvm ELSE Eff, obj, n) /\ ~aborted')
               => SameName(obj, n)]_vars

\* the records of SpecProc
ProcRecords ==
    {ForkRec("p1", ch, 4242) : ch \in {"p2", None}}
    \cup {RenameRec("p1", "f1", pp[1], pp[2], b) :
            pp \in Paths \X (Paths \cup {None}), b \in {None, OtherFile}}
    \cup {ExecRec("p1", "f1", "/a", ld, None) : ld \in {None, OtherFile}}

\* the errors a handler returns
RecordErrors == {"MissingField", "AssertionFailure"}

\* the number of context nodes sent to the views
CtxSent ==
    Cardinality({i \in 1..Len(pvm.persist_pipe) :
                    pvm.persist_pipe[i].ent.cls = "Ctx"})

\* C13: a record whose handler fails with MissingField or AssertionFailure
\* sends no change event to the views, its error is the result of process,
\* and the ingest loop is left able to apply the next record.
C13_FailedRecordContained ==
    [][\A rec \in ProcRecords :
          (Process(rec) /\ Parsed(pvm, rec).err \in RecordErrors)
          => /\ Sent = <<>>
             /\ last' = Did(rec.event, Parsed(pvm, rec).err)
             /\ Idle']_vars

\* C13 witness: of two records applied the first one failed and sent
\* nothing, and the second one, an exec, was applied and committed
C13_Witness ==
    /\ ntx = 2
    /\ last = Did("audit:event:aue_execve:", "Ok")
    /\ pvm.type_cache # {}
    /\ CtxSent = 1

\* the context IDs an event carries: the ctx of an Inf edge, the start and
\* the non-zero end of a Named edge
CtxIDs(e) ==
    IF e.ent.cls \in {"Inf", "Named"} THEN {e.ent.ctx, e.ent.end} \ {0}
    ELSE {}

\* C14: the commit of a transaction that buffered events sends the
\* CreateNode of the context node first and the buffered events after it,
\* in the order of the DBStore; so every event sent to the views that
\* carries a context ID comes after the CreateNode of that context node.
C14_ContextFirst ==
    /\ [](\A i \in 1..Len(pvm.persist_pipe) :
            \A c \in CtxIDs(pvm.persist_pipe[i]) :
               \E j \in 1..(i - 1) :
                  /\ pvm.persist_pipe[j].op = "CreateNode"
                  /\ pvm.persist_pipe[j].ent.cls = "Ctx"
                  /\ pvm.persist_pipe[j].ent.id = c)
    /\ [][(Commit /\ ~aborted' /\ Len(tr.db) > 0)
            => Sent = <<DBTr("CreateNode", tr.ctx_node)>> \o tr.db]_vars

\* the classes of the entities a sequence of events creates
CreatedClasses(q) == {q[i].ent.cls : i \in {j \in 1..Len(q) : IsCreate(q[j])}}

\* C15: the ID of the context node of a transaction is strictly less than
\* the ID of every node and relationship the transaction has created, while
\* the transaction is in flight and among the events its commit sends.
C15_ContextIdLeast ==
    /\ [](tr.active =>
            \A i \in 1..Len(tr.db) :
               IsCreate(tr.db[i]) => tr.ctx < tr.db[i].ent.id)
    /\ [][(Commit /\ ~aborted') =>
            \A i \in 1..Len(Sent) :
               (IsCreate(Sent[i]) /\ Sent[i].ent.cls # "Ctx")
               => tr.ctx_node.id < Sent[i].ent.id]_vars

\* C15 witness: a transaction that created a data node, a name node and a
\* relationship has been committed
C15_Witness ==
    /\ last = Did("commit", "Ok")
    /\ {"Data", "Name", "Named", "Ctx"}
           \subseteq CreatedClasses(pvm.persist_pipe)

(***************************************************************************)
(* C16, C17: the coalescing of the DBStore.                                *)
(***************************************************************************)
\* the entity a change event is about: nodes and relationships are told
\* apart, then the ID decides
KeyOf(e) == <<IsNodeOp(e), e.ent.id>>

KeysOf(h) == {KeyOf(h[i]) : i \in 1..Len(h)}

FirstOf(h, k) == CHOOSE i \in 1..Len(h) :
    KeyOf(h[i]) = k /\ \A j \in 1..(i - 1) : KeyOf(h[j]) # k

LatestOf(h, k) == CHOOSE i \in 1..Len(h) :
    KeyOf(h[i]) = k /\ \A j \in (i + 1)..Len(h) : KeyOf(h[j]) # k

\* the entity whose first insertion is the n-th first insertion of h
NthKey(h, n) == CHOOSE k \in KeysOf(h) :
    Cardinality({k2 \in KeysOf(h) : FirstOf(h, k2) <= FirstOf(h, k)}) = n

\* one operation per entity of h, in the order of the first insertions, of
\* the kind of the first insertion and with the payload of the latest
Coalesced(h) ==
    [n \in 1..Cardinality(KeysOf(h)) |->
        DBTr(h[FirstOf(h, NthKey(h, n))].op, h[LatestOf(h, NthKey(h, n))].ent)]

C17_CreateTwiceAborts ==
    [][\A op \in StoreInputs :
        (/\ StoreInsert(op)
         /\ IsCreate(op)
         /\ \E i \in 1..Len(tr.db) :
              KeyOf(tr.db[i]) = KeyOf(op) /\ IsCreate(tr.db[i]))
        => (aborted' /\ tr'.db = tr.db)]_vars

(***************************************************************************)
(* C18: the events of a fork record.                                       *)
(***************************************************************************)
\* the fork record of scenario S1
S1Fork == ForkRec("p1", "p2", 4242)

\* the change events the views are to receive for S1Fork
S1Events(q) ==
    /\ Len(q) = 6
    /\ q[1].op = "CreateNode" /\ q[1].ent.cls = "Ctx"
    /\ q[2].op = "CreateNode" /\ q[2].ent.cls = "Data"
    /\ q[2].ent.ty = PROCESS /\ q[2].ent.uuid = "p1"
    /\ q[3].op = "CreateNode" /\ q[3].ent.cls = "Data"
    /\ q[3].ent.ty = PROCESS /\ q[3].ent.uuid = "p2"
    /\ q[4].op = "UpdateNode" /\ q[4].ent.id = q[3].ent.id
    /\ q[4].ent.uuid = "p2" /\ Has(q[4].ent.meta, "pid")
    /\ q[4].ent.meta["pid"] = "4242"
    /\ q[5].op = "CreateRel" /\ q[5].ent.cls = "Inf"
    /\ q[5].ent.pvm_op = "Version"
    /\ q[5].ent.src = q[2].ent.id /\ q[5].ent.dst = q[3].ent.id
    /\ q[6].op = "CreateRel" /\ q[6].ent.cls = "Inf"
    /\ q[6].ent.pvm_op = "Source"
    /\ q[6].ent.src = q[2].ent.id /\ q[6].ent.dst = q[3].ent.id

\* C18: with the CADETS types registered, the fork record of a first-seen
\* process p1 with child p2 and return value 4242 sends CreateNode(Ctx), CreateNode(Process p1),
\* CreateNode(Process p2), UpdateNode(Process p2, pid = 4242),
\* CreateRel(Inf Version p1 -> p2), CreateRel(Inf Source p1 -> p2), in this
\* order and nothing else.
C18_ForkEvents ==
    [][(/\ Process(S1Fork)
        /\ PROCESS \in pvm.type_cache
        /\ ~Has(pvm.uuid_cache, "p1")) => S1Events(Sent)]_vars

(***************************************************************************)
(* C19: the names of a renamed file.                                       *)
(***************************************************************************)
\* the rename records with two paths
RenameRecs ==
    {rec \in {RenameRec("p1", "f1", src, dst, b) :
                src \in Paths, dst \in Paths, b \in {None, OtherFile}} :
        rec.upath1 # rec.upath2}

\* the Named relationships from the current node of u to the name nm
NamedOf(p, u, nm) ==
    IF ~Has(p.uuid_cache, u) \/ ~Has(p.name_cache, nm) THEN {}
    ELSE {r \in Image(p.rel_cache) :
            /\ r.cls = "Named"
            /\ r.src = p.uuid_cache[u]
            /\ r.dst = p.name_cache[nm].id}

EndSet(p, u, nm) ==
    NamedOf(p, u, nm) # {} /\ \A r \in NamedOf(p, u, nm) : r.end # 0

LiveName(p, u, nm) == \E r \in NamedOf(p, u, nm) : r.end = 0

\* C19: after a rename record of file A from upath1 to upath2, over file B if
\* one is given, has committed, the Named edge (A, upath1) has its end set,
\* so has the Named edge (B, upath2) when B is given, and A has a live
\* Named edge to upath2, also when A carried the name upath2 before.
C19_RenameNames ==
    [][\A rec \in RenameRecs :
        (Process(rec) /\ ParseResult(pvm, rec) = "Ok") =>
            /\ EndSet(pvm', rec.arg_objuuid1, rec.upath1)
            /\ rec.arg_objuuid2 # None =>
                   EndSet(pvm', rec.arg_objuuid2, rec.upath2)
            /\ LiveName(pvm', rec.arg_objuuid1, rec.upath2)]_vars

(***************************************************************************)
(* C20: closes of another file among the records of a file.                *)
(***************************************************************************)
\* the engine after the records recs were ingested in order by p; the
\* engine that aborted on one of them is Crashed
Crashed == [aborted |-> TRUE]

Step(p, rec) ==
    IF p = Crashed THEN p
    ELSE IF ParseResult(p, rec) = "panic" THEN Crashed
    ELSE parse(p, rec)

RECURSIVE Run(_, _)
Run(p, recs) ==
    IF recs = <<>> THEN p ELSE Run(Step(p, Head(recs)), Tail(recs))

\* the engines after the records recs with the record c ingested or not
\* before each of them and after the last
RECURSIVE Interleavings(_, _, _)
Interleavings(p, recs, c) ==
    IF recs = <<>> THEN {p, Step(p, c)}
    ELSE Interleavings(Step(p, Head(recs)), Tail(recs), c)
         \cup Interleavings(Step(Step(p, c), Head(recs)), Tail(recs), c)

\* the Inf relationships of p
InfsOf(p) == {r \in Image(p.rel_cache) : r.cls = "Inf"}

\* the IDs of the versions of an object, from the set S of its later ones
\* back along the Version relationships (add drops the node of the earlier
\* version from node_cache, the relationships stay)
RECURSIVE ChainFrom(_, _)
ChainFrom(p, S) ==
    IF {r.src : r \in {x \in InfsOf(p) :
                        x.pvm_op = "Version" /\ x.dst \in S}} \subseteq S
    THEN S
    ELSE ChainFrom(p, S \cup {r.src : r \in {x \in InfsOf(p) :
                                  x.pvm_op = "Version" /\ x.dst \in S}})

ChainOf(p, u) ==
    IF Has(p.uuid_cache, u) THEN ChainFrom(p, {p.uuid_cache[u]}) ELSE {}

\* a node without its ID: a version of u is its place in the chain of u,
\* another node is its object
Place(p, u, n) ==
    IF n \in ChainOf(p, u)
    THEN <<u, Cardinality({m \in ChainOf(p, u) : m <= n})>>
    ELSE IF Has(p.node_cache, n) THEN <<p.node_cache[n].uuid, 0>>
    ELSE <<"none", 0>>

\* the state of file u: its current PVM type, its open_cache entry, the
\* length of its version chain, and the Inf relationships at its versions
\* with their byte counts
FileState(p, u) ==
    IF p = Crashed THEN p
    ELSE [ty |-> IF Has(p.uuid_cache, u)
                 THEN <<p.node_cache[p.uuid_cache[u]].pvm_ty>> ELSE <<>>,
          open |-> IF Has(p.open_cache, u) THEN <<p.open_cache[u]>>
                   ELSE <<>>,
          chain |-> Cardinality(ChainOf(p, u)),
          edges |-> {<<r.pvm_op, r.byte_count,
                       Place(p, u, r.src), Place(p, u, r.dst)>> :
                     r \in {x \in InfsOf(p) :
                              x.src \in ChainOf(p, u)
                              \/ x.dst \in ChainOf(p, u)}}]

\* the record sequences open, read, close and open, write, close of p1 on f1
FileSeqs ==
    {<<OpenRec("p1", "f1", "/a"), ReadRec("p1", "f1", 7),
       CloseRec("p1", "f1")>>,
     <<OpenRec("p1", "f1", "/a"), WriteRec("p1", "f1", 7),
       CloseRec("p1", "f1")>>}

\* C20: from any state, open, read, close and open, write, close on f1 leave
\* the state of f1 the same, up to the numbering of the IDs, with and
\* without close records of OtherFile anywhere among them.
C20_OtherCloseIndependent ==
    Idle => \A s \in FileSeqs :
        {FileState(q, "f1") :
            q \in Interleavings(pvm, s, CloseRec("p1", OtherFile))}
        = {FileState(Run(pvm, s), "f1")}

\* f1 is being written by p2 and OtherFile was closed before
C20_Witness ==
    /\ Idle
    /\ Has(pvm.uuid_cache, OtherFile)
    /\ Has(pvm.open_cache, "f1")
    /\ "p2" \in pvm.open_cache["f1"]
    /\ FileState(Run(pvm, <<OpenRec("p1", "f1", "/a"),
                            WriteRec("p1", "f1", 7),
                            CloseRec("p1", "f1")>>), "f1")
       # FileState(pvm, "f1")

(***************************************************************************)
(* C21: a closed Named edge stays closed.                                  *)
(***************************************************************************)
\* the relationships of the engine, through the transaction if one is open
RelsNow == IF tr.active THEN tr.rel_cache ELSE pvm.rel_cache

\* the Named relationships of the PVM whose end is set
ClosedNames == {r \in Image(pvm.rel_cache) : r.cls = "Named" /\ r.end # 0}

\* C21: a Named edge, from an object to a name, whose end was set to a
\* context ID is not open after any later operation, commit or rollback.
C21_ClosedStaysClosed ==
    [][\A r \in ClosedNames :
        \A q \in Image(RelsNow') :
            (q.cls = "Named" /\ q.src = r.src /\ q.dst = r.dst)
            => q.end # 0]_vars

(***************************************************************************)
(* C22: the checks of the PVM type of a subject and of an endpoint.        *)
(***************************************************************************)
PvmTy(n) == tr.node_cache[n].pvm_ty

\* the operation returned AssertionFailure and left the transaction as it
\* was: its DBStore, its ID counter and all its indices
Rejected(t) == t = Fail(tr, "AssertionFailure")

\* C22: source, source_nbytes, sink, sinkstart, sinkstart_nbytes and sinkend
\* with a subject that is not an Actor, and connect with an endpoint that is
\* not a Conduit, return AssertionFailure and change nothing.
C22_TypeChecksReject ==
    InTr => \A act \in Nodes, ent \in Nodes :
        /\ PvmTy(act) # "Actor" =>
            /\ Rejected(source(tr, act, ent))
            /\ Rejected(source_nbytes(tr, act, ent, 7))
            /\ Rejected(sink(tr, act, ent))
            /\ Rejected(sinkstart(tr, act, ent))
            /\ Rejected(sinkstart_nbytes(tr, act, ent, 7))
            /\ Rejected(sinkend(tr, act, ent))
        /\ (PvmTy(act) # "Conduit" \/ PvmTy(ent) # "Conduit") =>
            \A dir \in {"Mono", "BiDirectional"} :
                Rejected(connect(tr, act, ent, dir))

\* the same for a subject that is not the entity
C22_Distinct ==
    InTr => \A act \in Nodes : \A ent \in Nodes \ {act} :
        /\ PvmTy(act) # "Actor" =>
            /\ Rejected(source(tr, act, ent))
            /\ Rejected(source_nbytes(tr, act, ent, 7))
            /\ Rejected(sink(tr, act, ent))
            /\ Rejected(sinkstart(tr, act, ent))
            /\ Rejected(sinkstart_nbytes(tr, act, ent, 7))
            /\ Rejected(sinkend(tr, act, ent))
        /\ (PvmTy(act) # "Conduit" \/ PvmTy(ent) # "Conduit") =>
            \A dir \in {"Mono", "BiDirectional"} :
                Rejected(connect(tr, act, ent, dir))

(***************************************************************************)
(* C23: no key is lent twice.                                              *)
(***************************************************************************)
\* C23: whatever records are ingested, also records whose object UUID is
\* the UUID of the subject process, no handler lends a key that is on loan:
\* the engine does not abort.
C23_NoDoubleLend == ~aborted

(***************************************************************************)
(* C29: the change log of a view instance.                                 *)
(***************************************************************************)
\* C29: what a view instance has received and has queued is the change log
\* from its first event on, the events broadcast before the instance was
\* created included.
C29_FullChangeLog ==
    \A v \in 1..Len(streams) :
        insts[v] \o streams[v] = SubSeq(bcast, 1, Upto(v))

(***************************************************************************)
(* C30: the context type of a transaction.                                 *)
(***************************************************************************)
\* C30: PVM::transaction starts a transaction only for a context type that
\* was registered with register_ctx_type.
C30_CtxTypeRegistered ==
    [][Transaction => CTX \in pvm.ctx_type_cache]_vars

(***************************************************************************)
(* Properties of ingest_stream.                                            *)
(***************************************************************************)
RECURSIVE RecordsOf(_, _)
\* the records among the first k lines of the stream ls, in line order,
\* each with the result of process
RecordsOf(ls, k) ==
    IF k = 0 THEN <<>>
    ELSE IF decode(ls[k]) = "Some" /\ ls[k] \notin {"io", "skip"}
         THEN Append(RecordsOf(ls, k - 1), [n |-> k, res |-> process(ls[k])])
         ELSE RecordsOf(ls, k - 1)

IsPrefix(s, t) == Len(s) <= Len(t) /\ s = SubSeq(t, 1, Len(s))

\* C24: the records handed to process are, at every moment, the first
\* records of the stream in line order: no record is applied before a
\* record of an earlier line, whatever the batch and whatever the order in
\* which the workers finish, and lines that are not records leave no gap.
C24_LineOrder ==
    IsPrefix(applied, RecordsOf(lines, Len(lines)))

\* three records of two batches have been applied around a line that is
\* not a record
C24_Witness ==
    /\ ipc.pc = "done"
    /\ Len(applied) = 3
    /\ \E n \in 1..Len(lines) :
          /\ lines[n] = "json"
          /\ applied[1].n < n
          /\ n < applied[3].n

C25_ReturnedErrors ==
    (ipc.pc = "done" /\ \A n \in 1..Len(lines) : lines[n] # "panic")
    => applied = RecordsOf(lines, Len(lines))

\* under fair scheduling ingest_stream stops
C25_Stops == <>(ipc.pc \in {"done", "panicked"})

(***************************************************************************)
(* C26: shutdown of the pipeline.                                          *)
(***************************************************************************)
\* C26: when shutdown_pipeline has returned, nothing is left in a channel,
\* every thread has been joined, and every view instance has received
\* every event that was emitted.
C26_AllHanded ==
    shut.pc = "done"
    => /\ recv = <<>>
       /\ thread.pc = "exited"
       /\ \A v \in 1..Len(streams) :
             /\ v \in vdone
             /\ streams[v] = <<>>
             /\ insts[v] = bcast

\* the same for the events broadcast since the instance was created
C26_QueuedHanded ==
    shut.pc = "done"
    => /\ recv = <<>>
       /\ thread.pc = "exited"
       /\ Len(bcast) = ncommit + Cardinality({e \in Image(bcast) : e.k = 2})
       /\ \A v \in 1..Len(streams) :
             /\ v \in vdone
             /\ streams[v] = <<>>
             /\ insts[v] = SubSeq(bcast, joined[v] + 1, Len(bcast))

\* the view threads are joined in the order of self.insts
C26_JoinOrder ==
    shut.pc = "join_views" => \A v \in 1..(shut.v - 1) : v \in vdone

\* shutdown_pipeline returns
C26_Terminates == (shut.pc # "run") ~> (shut.pc = "done")

(***************************************************************************)
(* C27, C28: the engine's pipeline and the tables of the coordinator.      *)
(***************************************************************************)
\* the operations that go through get_pipeline or get_pipeline_mut
PipelineOps ==
    {"register_view_type", "create_view_by_id", "create_view_by_name",
     "init_persistance", "list_view_types", "list_running_views",
     "ingest_stream", "ingest_reader", "init_record", "ingest_record"}

\* an absent pipeline holds nothing; a pipeline that is there has its
\* built-in view type and tables that agree
AbsentOrWhole ==
    IF ~pipeline.running THEN pipeline = NoPipeline
    ELSE /\ Has(pipeline.view_name_map, "Neo4JView")
         /\ pipeline.view_name_map["Neo4JView"] = 0
         /\ DOMAIN pipeline.views = 0..(pipeline.vid_gen - 1)
         /\ \A nm \in DOMAIN pipeline.view_name_map :
               pipeline.views[pipeline.view_name_map[nm]] = nm
         /\ Len(pipeline.insts) = pipeline.viid_gen

\* the call op of the engine has just returned
Call(op) == last'.op = op

\* what the calls on the pipeline return
PipelineCalls ==
    /\ Call("init_pipeline") =>
          IF pipeline.running
          THEN last'.res = "PipelineRunning" /\ pipeline' = pipeline
          ELSE \/ last'.res = "Ok" /\ pipeline' = NewPipeline
               \/ last'.res = "ThreadingErr" /\ pipeline' = NoPipeline
    /\ Call("shutdown_pipeline") =>
          /\ pipeline' = NoPipeline
          /\ last'.res = IF pipeline.running THEN "Ok"
                         ELSE "PipelineNotRunning"
    /\ \A op \in PipelineOps :
          (Call(op) /\ ~pipeline.running) =>
              last'.res = "PipelineNotRunning" /\ pipeline' = NoPipeline

\* C27: the pipeline is absent or whole in every state; init_pipeline on a
\* running pipeline returns PipelineRunning and changes nothing, and on an
\* absent one, also after a shutdown, it builds the whole pipeline or
\* fails and leaves it absent; shutdown_pipeline leaves it absent and
\* returns PipelineNotRunning if it was; every operation on an absent
\* pipeline returns PipelineNotRunning.
C27_AbsentOrWhole == []AbsentOrWhole /\ [][PipelineCalls]_vars

\* init_pipeline has been refused on a pipeline with a view instance
C27_Witness ==
    /\ last.op = "init_pipeline"
    /\ last.res = "PipelineRunning"
    /\ pipeline.viid_gen = 1

\* no two names have the same type id and no two instances the same id
DistinctIds ==
    /\ \A a \in DOMAIN pipeline.view_name_map :
          \A b \in DOMAIN pipeline.view_name_map :
              pipeline.view_name_map[a] = pipeline.view_name_map[b] => a = b
    /\ \A i \in 1..Len(pipeline.insts) :
          \A j \in 1..Len(pipeline.insts) :
              pipeline.insts[i].id = pipeline.insts[j].id => i = j

\* what the calls on the tables of a running pipeline return
ViewCalls ==
    /\ (Call("register_view_type") /\ pipeline.running) =>
          IF Has(pipeline.view_name_map, last'.arg)
          THEN last'.res = "DuplicateViewName" /\ pipeline' = pipeline
          ELSE /\ last'.res = "Ok"
               /\ ~Has(pipeline.views, last'.ret)
               /\ pipeline'.view_name_map =
                      Put(pipeline.view_name_map, last'.arg, last'.ret)
               /\ pipeline'.views =
                      Put(pipeline.views, last'.ret, last'.arg)
    /\ (Call("create_view_by_id") /\ pipeline.running
          /\ ~Has(pipeline.views, last'.arg)) =>
          last'.res = "MissingViewID" /\ pipeline' = pipeline
    /\ (Call("create_view_by_name") /\ pipeline.running
          /\ ~Has(pipeline.view_name_map, last'.arg)) =>
          last'.res = "MissingViewName" /\ pipeline' = pipeline

\* C28: registering a name that is registered returns DuplicateViewName
\* and leaves the type table, the name map and the next type id as they
\* were; a registration that succeeds returns an id no type has; creating
\* a view for an id or a name that is not registered returns MissingViewID
\* or MissingViewName and leaves the instances and the next instance id
\* as they were.
C28_ViewTables == []DistinctIds /\ [][ViewCalls]_vars

\* a name was registered and a second registration of a name refused
C28_Witness ==
    /\ pipeline.vid_gen = 2
    /\ last.op = "register_view_type"
    /\ last.res = "DuplicateViewName"

(***************************************************************************)
(* C31: the event names without a handler.                                 *)
(***************************************************************************)
\* C31: once a record whose event name has no handler has been processed,
\* its event name is in unparsed_events, and the name of an event with a
\* handler, or of aue_dup2, never is.
C31_UnparsedRecorded ==
    /\ (last.op \in OtherEvents /\ last.res = "Ok")
          => last.op \in pvm.unparsed_events
    /\ pvm.unparsed_events \subseteq OtherEvents

(***************************************************************************)
(* C32: the schema nodes.                                                  *)
(***************************************************************************)
\* C32: for every registered data type and context type, exactly one
\* schema node of that type has been sent to the views.
C32_OneSchemaNode ==
    \A ty \in pvm.type_cache \cup pvm.ctx_type_cache :
        Cardinality({i \in 1..Len(SchemaSent) : SchemaSent[i].ent.ty = ty}) = 1

(***************************************************************************)
(* C33: the edges returned by the flow operations.                         *)
(***************************************************************************)
\* the operation succeeded and the ID it returned is that of an Inf edge
\* src -> dst with the given pvm_op
Gave(t, src, dst, pvm_op) ==
    Ok(t) =>
        /\ Has(t.rel_cache, t.ret)
        /\ t.rel_cache[t.ret].cls = "Inf"
        /\ t.rel_cache[t.ret].src = src
        /\ t.rel_cache[t.ret].dst = dst
        /\ t.rel_cache[t.ret].pvm_op = pvm_op

\* the operation succeeded and the ID it returned is that of an Inf edge
\* from src with the given pvm_op
GaveFrom(t, src, pvm_op) ==
    Ok(t) =>
        /\ Has(t.rel_cache, t.ret)
        /\ t.rel_cache[t.ret].cls = "Inf"
        /\ t.rel_cache[t.ret].src = src
        /\ t.rel_cache[t.ret].pvm_op = pvm_op

\* the transaction holds an Inf edge src -> dst with the given pvm_op
HasEdge(t, src, dst, pvm_op) ==
    Ok(t) =>
        \E r \in Image(t.rel_cache) :
            r.cls = "Inf" /\ r.src = src /\ r.dst = dst /\ r.pvm_op = pvm_op

\* C33: in every state of a transaction and for every two current nodes,
\* the edge returned by source and source_nbytes is ent -> act with Source,
\* the edge returned by sink and sinkstart is from act with Sink, connect
\* leaves an edge first -> second with Connect, and derive leaves an edge
\* from the source to the node it returns with Version.
C33_EdgeKinds ==
    InTr => \A act \in Nodes, ent \in Nodes :
        /\ Gave(source(tr, act, ent), ent, act, "Source")
        /\ Gave(source_nbytes(tr, act, ent, 7), ent, act, "Source")
        /\ GaveFrom(sink(tr, act, ent), act, "Sink")
        /\ GaveFrom(sinkstart(tr, act, ent), act, "Sink")
        /\ HasEdge(connect(tr, act, ent, "Mono"), act, ent, "Connect")
        /\ \A u \in ProcUuids :
              With(derive(tr, act, u), LAMBDA d :
                   HasEdge(d, act, d.ret, "Version"))

(***************************************************************************)
(* C34: sink.                                                              *)
(***************************************************************************)
\* sink(act, ent) on the Store ent left t: a Store of the same UUID with
\* the next ID is the current node of the UUID, the old version is gone
\* from node_cache, and the edges old -> new with Version and act -> new
\* with Sink are there, the latter returned
SinkVersioned(t, act, ent) ==
    /\ Ok(t)
    /\ With(tr.node_cache[ent].uuid, LAMBDA u :
       With(t.uuid_cache[u], LAMBDA new :
          /\ new = tr.id
          /\ ~Has(tr.node_cache, new)
          /\ Has(t.node_cache, new)
          /\ t.node_cache[new].uuid = u
          /\ t.node_cache[new].pvm_ty = "Store"
          /\ ~Has(t.node_cache, ent)
          /\ \A x \in DOMAIN tr.uuid_cache \ {u} :
                t.uuid_cache[x] = tr.uuid_cache[x]
          /\ HasEdge(t, ent, new, "Version")
          /\ Gave(t, act, new, "Sink")))

\* sink(act, ent) on an ent that is no Store left t: no node was made and
\* the edge act -> ent with Sink is there and returned
SinkDirect(t, act, ent) ==
    /\ Ok(t)
    /\ t.node_cache = tr.node_cache
    /\ t.uuid_cache = tr.uuid_cache
    /\ Gave(t, act, ent, "Sink")

\* C34: in every state of a transaction, for every current Actor act and
\* every current node ent, sink(act, ent) versions a Store ent and sinks
\* into the new version, and sinks into an ent of any other type directly.
C34_SinkVersions ==
    InTr => \A act \in {n \in Nodes : PvmTy(n) = "Actor"}, ent \in Nodes :
        IF PvmTy(ent) = "Store"
        THEN SinkVersioned(sink(tr, act, ent), act, ent)
        ELSE SinkDirect(sink(tr, act, ent), act, ent)

\* the same for the Stores only
C34_Stores ==
    InTr => \A act \in {n \in Nodes : PvmTy(n) = "Actor"}, ent \in Nodes :
        PvmTy(ent) = "Store" => SinkVersioned(sink(tr, act, ent), act, ent)

\* the same for an ent other than act with no edge act -> ent of another
\* operation
C34_NoOtherEdge ==
    InTr => \A act \in {n \in Nodes : PvmTy(n) = "Actor"}, ent \in Nodes :
        (/\ PvmTy(ent) # "Store"
         /\ ent # act
         /\ \A r \in Image(tr.rel_cache) :
               (r.src = act /\ r.dst = ent) => r.pvm_op = "Sink")
        => SinkDirect(sink(tr, act, ent), act, ent)

(***************************************************************************)
(* C35: release.                                                           *)
(***************************************************************************)
\* the IDs of the nodes sent to the views or buffered by the transaction
NodeIDsSeen ==
    {e.id : e \in Emitted} \cup {tr.db[i].ent.id : i \in 1..Len(tr.db)}

\* release(u) left t: the binding of u and its node are gone and nothing
\* else has changed
ReleasedOnly(t, u) ==
    /\ Ok(t)
    /\ t.uuid_cache = Del(tr.uuid_cache, u)
    /\ t.node_cache = IF Has(tr.uuid_cache, u)
                      THEN Del(tr.node_cache, tr.uuid_cache[u])
                      ELSE tr.node_cache
    /\ t.rel_cache = tr.rel_cache
    /\ t.rel_src_dst_cache = tr.rel_src_dst_cache
    /\ t.name_cache = tr.name_cache
    /\ t.open_cache = tr.open_cache
    /\ t.db = tr.db
    /\ t.id = tr.id

\* declare of the unbound UUID d[2] left n: the node has an ID that no
\* node sent or buffered had, the released node least of all, and its
\* CreateNode is buffered
DeclaredAnew(t, n, d) ==
    Ok(n) =>
        /\ n.ret \notin NodeIDsSeen
        /\ Has(tr.uuid_cache, d[2]) => n.ret # tr.uuid_cache[d[2]]
        /\ n.uuid_cache[d[2]] = n.ret
        /\ Len(n.db) = Len(t.db) + 1
        /\ n.db[Len(n.db)].op = "CreateNode"
        /\ n.db[Len(n.db)].ent.id = n.ret
        /\ n.db[Len(n.db)].ent.uuid = d[2]

\* C35: in every state of a transaction, release(u) removes the binding
\* and the node of u and leaves everything else as it was, and a declare
\* of u after it makes a node with a new ID and buffers its CreateNode.
C35_ReleaseFrame ==
    InTr => \A d \in DeclInputs :
        /\ ReleasedOnly(release(tr, d[2]), d[2])
        /\ DeclaredAnew(release(tr, d[2]),
                        declare(release(tr, d[2]), d[1], d[2], EmptyMap), d)

\* a UUID whose node was sent to the views has been released
C35_Witness ==
    /\ InTr
    /\ last.op = "release"
    /\ ~Has(tr.uuid_cache, "p1")
    /\ \E e \in Emitted : e.uuid = "p1"

(***************************************************************************)
(* C36: the mutex on streams.                                              *)
(***************************************************************************)
\* the coordinator thread is blocked in stream.send on a full view channel
BlockedOnView ==
    /\ thread.pc = "send"
    /\ thread.i <= Len(streams)
    /\ send(streams[thread.i], thread.evt, StreamCap).blocked

\* C36: while the coordinator thread is blocked sending to a full view
\* channel, create_view_with_id can take the mutex and push its sender.
C36_CreateNotBlocked ==
    (BlockedOnView /\ Len(streams) < MaxViews) => ENABLED create_view_with_id

\* the UUIDs the PVM p knows of, through the UUID map or through open_cache
KnownUuids(p) == DOMAIN p.uuid_cache \cup DOMAIN p.open_cache

\* open_cache of PVM p holds exactly the UUIDs whose current node is an
\* EditSession, each with a non-empty set of writers
OpenIffSession(p) ==
    \A u \in KnownUuids(p) :
        /\ Has(p.open_cache, u) <=> IsA(p, u, "EditSession")
        /\ Has(p.open_cache, u) => p.open_cache[u] # {}

\* C37: after every committed or rolled-back transaction open_cache holds a
\* UUID if and only if the current node of that UUID is an EditSession, and
\* every set in open_cache is non-empty.
C37_OpenIffSession == Idle => OpenIffSession(pvm)

\* the IDs a relationship refers to: src, dst and the context of an Inf,
\* src, dst, the start context (field ctx) and the end context, once set,
\* of a Named
Refs(e) ==
    IF e.cls = "Inf" THEN {e.src, e.dst, e.ctx}
    ELSE {e.src, e.dst, e.ctx} \cup (IF e.end # 0 THEN {e.end} ELSE {})

\* the IDs of the nodes whose CreateNode has been sent to the views
NodesSent ==
    {pvm.persist_pipe[i].ent.id :
        i \in {j \in 1..Len(pvm.persist_pipe) :
                  pvm.persist_pipe[j].op = "CreateNode"}}

\* C38: every ID a relationship event sent to the views refers to is the
\* ID of a node whose CreateNode has been sent by the end of the batch of
\* the same transaction (the events reach the views in whole batches).
C38_RefsDelivered ==
    \A i \in 1..Len(pvm.persist_pipe) :
        IsRelOp(pvm.persist_pipe[i])
            => Refs(pvm.persist_pipe[i].ent) \subseteq NodesSent

\* no node of transaction t is an EditSession
NoSession(t) ==
    \A n \in DOMAIN t.node_cache : t.node_cache[n].pvm_ty # "EditSession"

\* transaction r is transaction t with nothing changed: no event buffered,
\* no ID taken, open_cache and all the indices as they were
Untouched(t, r) ==
    /\ r.db = t.db
    /\ r.id = t.id
    /\ r.open_cache = t.open_cache
    /\ r.uuid_cache = t.uuid_cache
    /\ r.node_cache = t.node_cache
    /\ r.rel_src_dst_cache = t.rel_src_dst_cache
    /\ r.rel_cache = t.rel_cache
    /\ r.name_cache = t.name_cache

\* sinkend(act, ent) of an Actor on a Store or a Conduit succeeds and
\* changes nothing, in every state of a transaction
SinkendNoop ==
    InTr =>
        \A act \in Nodes, ent \in Nodes :
            (/\ Has(tr.node_cache, act)
             /\ Has(tr.node_cache, ent)
             /\ tr.node_cache[act].pvm_ty = "Actor"
             /\ tr.node_cache[ent].pvm_ty \in {"Store", "Conduit"})
            => /\ Ok(sinkend(tr, act, ent))
               /\ Untouched(tr, sinkend(tr, act, ent))

\* C39: sinkend(act, ent) with act an Actor and ent not an EditSession (a
\* Store never opened for writing or already closed, or a Conduit) succeeds
\* and changes nothing: no event, no new version, no ID allocated,
\* open_cache and all indices unchanged; a sinkend that succeeds while no
\* node is an EditSession leaves the transaction and the PVM as they were.
C39_SinkendNoop ==
    /\ []SinkendNoop
    /\ [][(/\ InTr
           /\ NoSession(tr)
           /\ last'.op = "sinkend"
           /\ last'.res = "Ok"
           /\ nops' = nops + 1)
          => (tr' = tr /\ pvm' = pvm)]_vars

\* sinkend of the process on a socket, a Conduit, has succeeded: the
\* transaction holds the two nodes and no relationship
C39_Witness ==
    /\ InTr
    /\ last = Did("sinkend", "Ok")
    /\ DOMAIN tr.uuid_cache = {"p1", "s1"}
    /\ tr.rel_cache = EmptyMap
    /\ Len(tr.db) = 2

\* ingest_stream has returned and every record of the stream has been
\* handed to process exactly once, in line order
ReturnedAllHanded ==
    /\ ipc.pc = "done"
    /\ applied = RecordsOf(lines, Len(lines))

\* C40: ingest_stream returns on every finite stream, the streams with no
\* accepted line and with a whole number of batches included, and when it
\* returns every accepted line has been handed to process exactly once.
C40_Terminates == <>ReturnedAllHanded

\* the same for the streams on which process does not panic
C40_ReturningStreams ==
    (\A n \in 1..Len(lines) : lines[n] # "panic") => <>ReturnedAllHanded

\* the last batch of the stream was full: the loop went round once more
\* with an empty batch before it ended
C40_FullLastBatch ==
    /\ ipc.pc = "done"
    /\ pre_vec = <<>>
    /\ Len(applied) = BatchSize

====
